---------------------------- MODULE Spec2Model ----------------------------
(***************************************************************************)
(* A model of the sentiment backtesting engine and of its chart-data       *)
(* resolver:                                                               *)
(*   - lib/regression.py                align_price_and_sentiment          *)
(*   - lib/sentiment_strategy_backtest.py  build_signals,                  *)
(*                                      apply_risk_control, run_backtest   *)
(*   - api_server.py                    chart_data and its background job  *)
(* Floating point values are modelled as exact rationals [n, d].           *)
(***************************************************************************)
EXTENDS Integers, Sequences, FiniteSets, TLC

VARIABLES
    \* ---- run_backtest (sentiment_strategy_backtest.py) ----
    params,        \* StrategyParams of the run
    price,         \* df[price_col], indexed 0..NumBars-1
    sentiment,     \* df[sentiment_col]
    ret,           \* df["ret"]
    target_pos,    \* out["target_pos"]
    position_raw,  \* out["position_raw"], the smoother's output
    position,      \* out["position"], the final position
    equity,        \* out["equity"]
    peak,          \* running peak of apply_risk_control
    i,             \* loop index of the loop in progress
    pc,            \* where run_backtest stands
    \* ---- align_price_and_sentiment (regression.py) ----
    price_times,      \* the index of the sorted price frame
    sentiment_pts,    \* the sorted sentiment frame: rows [ts, sentiment]
    apply_time_decay, \* the keyword argument
    merged,           \* the rows of the merged frame built so far
    right_pos,        \* merge_asof's position in the right frame
    last_sent_ts,     \* last_sent_ts_for_price, one entry per bar so far
    apc,              \* where align_price_and_sentiment stands
    \* ---- chart_data and its background jobs (api_server.py) ----
    fns,            \* the pipeline functions the imports at start-up found
    merged_dir,     \* data/merged/*.parquet: the precomputed slices
    results_dir,    \* results/backtest_*.parquet
    demo_json,      \* results/backtest_for_ui.json exists
    sentiment_csv,  \* results/sentiment_2025-07-01_to_2025-08-01.csv exists
    price_parquet,  \* data/kline_output.parquet exists
    prepared,       \* what data/prepared_runtime.parquet holds
    ui_json,        \* results/backtest_for_ui_runtime_<job>.json, by job id
    jobs,           \* the background tasks added so far, by job id
    nreq,           \* chart-data requests received so far
    req,            \* the last chart-data request; pending until handled
    resp,           \* the path the last request took and its response
    \* ---- chart_data: the records of a response (api_server.py) ----
    rq,             \* points, window, initial_capital, source of the records
    points,         \* the point budget in effect
    obtained,       \* the records as obtained from the source
    filtered,       \* the records after the window filter
    records,        \* payload["records"]
    rpc,            \* where the request stands
    \* ---- detect_events (export_backtest_json.py) ----
    detect,         \* the frame of detect_events: df, locals, position
    \* ---- execute_backtest (regression.py) ----
    xb,             \* the frame of execute_backtest: arguments and locals
    \* ---- two runs of run_backtest side by side ----
    runs,           \* the frames of the two runs, by run
    \* ---- get_runner and CryptoSentimentRunner ----
    runners,        \* the global dictionary of api_server.py
    objects,        \* the CryptoSentimentRunner objects constructed so far
    cache_file,     \* what ./data/sentiment_cache.json holds
    threads         \* the requests being served, one per worker thread

btVars == <<params, price, sentiment, ret, target_pos, position_raw,
            position, equity, peak, i, pc>>

alVars == <<price_times, sentiment_pts, apply_time_decay, merged, right_pos,
            last_sent_ts, apc>>

cdVars == <<fns, merged_dir, results_dir, demo_json, sentiment_csv,
            price_parquet, prepared, ui_json, jobs, nreq, req, resp>>

recVars == <<rq, points, obtained, filtered, records, rpc>>

deVars == <<detect>>

xbVars == <<xb>>

cauVars == <<runs>>

rnVars == <<runners, objects, cache_file, threads>>

vars == <<btVars, alVars, cdVars, recVars, deVars, xbVars, cauVars, rnVars>>

\* what an action of one component leaves alone
notBt == <<alVars, cdVars, recVars, deVars, xbVars, cauVars, rnVars>>
notAl == <<btVars, cdVars, recVars, deVars, xbVars, cauVars, rnVars>>
notCd == <<btVars, alVars, recVars, deVars, xbVars, cauVars, rnVars>>
notRec == <<btVars, alVars, cdVars, deVars, xbVars, cauVars, rnVars>>
notDe == <<btVars, alVars, cdVars, recVars, xbVars, cauVars, rnVars>>
notXb == <<btVars, alVars, cdVars, recVars, deVars, cauVars, rnVars>>
notCau == <<btVars, alVars, cdVars, recVars, deVars, xbVars, rnVars>>
notRn == <<btVars, alVars, cdVars, recVars, deVars, xbVars, cauVars>>

-----------------------------------------------------------------------------
(* Bounds of the model *)

NumBars == 4
MaxTick == 3
MaxSent == 2
MaxRequests == 2
MaxRows == 3
NumThreads == 2

-----------------------------------------------------------------------------
(* Exact rational arithmetic standing for the float arithmetic of the code *)

Abs(x) == IF x < 0 THEN -x ELSE x

RECURSIVE Gcd(_, _)
Gcd(a, b) == IF b = 0 THEN a ELSE Gcd(b, a % b)

Rat(n, d) ==
    LET g == Gcd(Abs(n), Abs(d))
        s == IF d < 0 THEN -1 ELSE 1
    IN  [n |-> s * (n \div g), d |-> s * (d \div g)]

Zero == [n |-> 0, d |-> 1]
One == [n |-> 1, d |-> 1]
FromInt(k) == [n |-> k, d |-> 1]

RAdd(x, y) == Rat(x.n * y.d + y.n * x.d, x.d * y.d)
RNeg(x) == [n |-> -x.n, d |-> x.d]
RSub(x, y) == RAdd(x, RNeg(y))
RMul(x, y) ==
    LET g1 == Gcd(Abs(x.n), y.d)
        g2 == Gcd(Abs(y.n), x.d)
    IN  Rat((x.n \div g1) * (y.n \div g2), (x.d \div g2) * (y.d \div g1))
RDiv(x, y) == RMul(x, Rat(y.d, y.n))
RLt(x, y) == x.n * y.d < y.n * x.d
RLe(x, y) == x.n * y.d <= y.n * x.d
RAbs(x) == [n |-> Abs(x.n), d |-> x.d]
RMin(x, y) == IF RLt(y, x) THEN y ELSE x
RMax(x, y) == IF RLt(x, y) THEN y ELSE x
RSign(x) == IF x.n > 0 THEN 1 ELSE IF x.n < 0 THEN -1 ELSE 0

Bars == 0 .. (NumBars - 1)
Ticks == 0 .. MaxTick

-----------------------------------------------------------------------------
(* The frames of the functions that are not running *)

\* detect_events has not been called
NoDetect == [has_position |-> FALSE, pos |-> <<>>, time_format |-> "iso",
             events_per_row |-> <<>>, prev |-> Zero, i |-> 0, pc |-> "idle"]

-----------------------------------------------------------------------------
(* StrategyParams: the defaults of the dataclass, and the values drawn *)

upper_th == Rat(1, 5)
lower_th == Rat(-1, 5)
delta_th == Rat(1, 10)
w_trend == Rat(7, 10)
w_mom == Rat(3, 10)
max_strength == Rat(1, 2)

StrategyParams ==
    [window : {1, 2},
     alpha : {Rat(1, 2), One},
     max_drawdown : {Rat(1, 5), Rat(1, 2)}]

PriceValues == {1, 2}
SentimentValues == {FromInt(-1), Zero, One}

\* a run over the prices 100, 110, 99, ... with sentiments around the
\* thresholds upper_th and delta_th
ScenarioPrice == [k \in 0 .. (NumBars - 1) |->
                     IF k = 0 THEN 100 ELSE IF k = 1 THEN 110 ELSE 99]
ScenarioSentiments == {Zero, Rat(1, 5), Rat(3, 5)}
ScenarioSentiment == [k \in 0 .. (NumBars - 1) |->
                         IF k = 0 THEN Zero ELSE Rat(3, 5)]

-----------------------------------------------------------------------------
(* build_signals: the vectorised part *)

\* df[price_col].pct_change().fillna(0.0)
PctChange(p) ==
    [k \in Bars |-> IF k = 0 THEN Zero
                    ELSE RSub(Rat(p[k], p[k - 1]), One)]

RECURSIVE SumRange(_, _, _)
SumRange(f, a, b) == IF a > b THEN Zero ELSE RAdd(f[a], SumRange(f, a + 1, b))

SentMeanForward(sent, w) ==
    [k \in Bars |->
        LET hi == IF k + w - 1 > NumBars - 1 THEN NumBars - 1 ELSE k + w - 1
        IN  RDiv(SumRange(sent, k, hi), FromInt(hi - k + 1))]

\* sent.rolling(window, min_periods=1).mean()
SentMean(sent, w) ==
    [k \in Bars |->
        LET lo == IF k - w + 1 < 0 THEN 0 ELSE k - w + 1
        IN  RDiv(SumRange(sent, lo, k), FromInt(k - lo + 1))]

\* sent_mean.diff().fillna(0.0)
SentDiff(mean) ==
    [k \in Bars |-> IF k = 0 THEN Zero ELSE RSub(mean[k], mean[k - 1])]

SignalTrendInclusive(mean) ==
    [k \in Bars |-> IF RLe(mean[k], lower_th) THEN -1
                    ELSE IF RLe(upper_th, mean[k]) THEN 1 ELSE 0]

\* signal_trend: the assignment of -1 comes last
SignalTrend(mean) ==
    [k \in Bars |-> IF RLt(mean[k], lower_th) THEN -1
                    ELSE IF RLt(upper_th, mean[k]) THEN 1 ELSE 0]

SignalMom(diff) ==
    [k \in Bars |-> IF RLt(diff[k], RNeg(delta_th)) THEN -1
                    ELSE IF RLt(delta_th, diff[k]) THEN 1 ELSE 0]

Direction(trend, mom) ==
    [k \in Bars |-> RSign(RAdd(RMul(w_trend, FromInt(trend[k])),
                               RMul(w_mom, FromInt(mom[k]))))]

StrengthUnclipped(m) == RDiv(RAbs(m), max_strength)

\* np.minimum(1.0, np.abs(sent_mean.values) / params.max_strength)
Strength(m) == RMin(One, RDiv(RAbs(m), max_strength))

TargetPos(sent, w) ==
    LET mean == SentMean(sent, w)
        dir == Direction(SignalTrend(mean), SignalMom(SentDiff(mean)))
    IN  [k \in Bars |-> RMul(FromInt(dir[k]), Strength(mean[k]))]

Zeros == [k \in Bars |-> Zero]
Ones == [k \in Bars |-> One]

\* params.alpha * target_pos[i] + (1.0 - params.alpha) * position[i - 1]
Smooth(a, tgt, prev) == RAdd(RMul(a, tgt), RMul(RSub(One, a), prev))

-----------------------------------------------------------------------------
(* apply_risk_control: the pieces of one pass of its loop *)

EquityStepSameBar(eq, pos, r, k) ==
    RMul(eq[k - 1], RAdd(One, RMul(pos[k], r[k])))

\* equity[i - 1] * (1.0 + position[i - 1] * ret[i])
EquityStep(eq, pos, r, k) ==
    RMul(eq[k - 1], RAdd(One, RMul(pos[k - 1], r[k])))

NewPeakStale(pk, e) == pk

\* peak = max(peak, equity[i])
NewPeak(pk, e) == RMax(pk, e)

\* dd = 1.0 - equity[i] / peak if peak > 0 else 0.0
Drawdown(e, pk) == IF pk.n > 0 THEN RSub(One, RDiv(e, pk)) ELSE Zero

\* if dd > params.max_drawdown: position[i] = 0.0
Override(dd, smoothed, mdd) == IF RLt(mdd, dd) THEN Zero ELSE smoothed

-----------------------------------------------------------------------------
(* chart_data: the files it reads and writes *)

\* Query(None): no startDateTime / endDateTime
NoTime == -1

SYNC_ROW_LIMIT == 3000

Times == {NoTime} \cup Ticks

\* a parquet file: kind and id make its name, tmin..tmax is the span of its
\* time index, rows the rows it holds per tick
File(kind, id, tmin, tmax, rows) ==
    [kind |-> kind, id |-> id, tmin |-> tmin, tmax |-> tmax, rows |-> rows]

\* backtest_parquet=None
NoFile == File("none", 0, 0, 0, 0)
\* a backtest_parquet path that names no file
MissingFile == File("missing", 0, 0, 0, 0)

\* the rows of a frame: the span of its index and their number
Slice(lo, hi, rows) == [lo |-> lo, hi |-> hi, rows |-> rows]
NoSlice == Slice(0, 0, 0)

\* isinstance(df.index, DatetimeIndex): a file without one has no span
HasTimeIndex(f) == f.tmin <= f.tmax

\* data/merged: two slices with disjoint coverage, and a file that cannot be
\* read as a slice
SliceA == File("slice", 1, 0, 1, 1500)
SliceB == File("slice", 2, 2, MaxTick, 1501)
SliceBad == File("slice", 3, 1, 0, 1)
MergedDirs == {{}, {SliceA}, {SliceA, SliceB}, {SliceA, SliceBad}}

\* results/backtest_<year>-<month>*.parquet present at start-up, oldest first
\* StoredBad holds a frame without a time index
StoredA == File("month", 1, 0, 1, 1)
StoredB == File("month", 2, 2, MaxTick, 1)
StoredBad == File("month", 2, 1, 0, 1)
ResultsDirs == {<<>>, <<StoredA>>, <<StoredA, StoredB>>, <<StoredB, StoredA>>,
                <<StoredA, StoredBad>>}

Response(code, status, source, origin, job) ==
    [code |-> code, status |-> status, source |-> source, origin |-> origin,
     job_id |-> job]

Request(given, s, e, bg) ==
    [pending |-> TRUE, backtest_parquet |-> given, start |-> s, end |-> e,
     background_tasks |-> bg]

NoRequest == [Request(NoFile, NoTime, NoTime, FALSE) EXCEPT !.pending = FALSE]

\* no request has been answered yet
NoResponse ==
    [auto |-> NoFile, quick |-> "skipped", final |-> "none",
     response |-> Response(0, "none", "", "", 0)]

PipelineFunctions == {"prepare_dataset", "run_backtest", "build_records"}

\* the import outcomes of api_server.py lines 30-50: every function found, or
\* lib.prepare_dataset and build_records_from_backtest missing
ImportOutcomes == {PipelineFunctions, {"run_backtest"}}

Range(q) == {q[k] : k \in 1 .. Len(q)}

\* sorted(..., key=st_mtime, reverse=True)[0] over the files of q in S
Newest(q, S) == q[CHOOSE k \in 1 .. Len(q) :
                     q[k] \in S /\ \A j \in (k + 1) .. Len(q) : q[j] \notin S]

SameName(f, g) == f.kind = g.kind /\ f.id = g.id

\* writing a file replaces the file of that name and makes it the newest
WriteFile(q, f) == Append(SelectSeq(q, LAMBDA g : ~SameName(g, f)), f)

\* the month of a tick, as the year-month of a request's start
MonthOf(t) == (t \div 2) + 1

-----------------------------------------------------------------------------
(* chart_data: the records of a response; times are counted in hours *)

MaxRecs == 2

\* points: Optional[int] = Query(None)
NoPoints == -1
\* a startDateTime / endDateTime that datetime.fromisoformat rejects
BadTime == -2

\* the times of records, and a record without "time"
RecordTimes == {0, 24, 168}

\* a chart record; holdValue and strategyValue are floats
Record(t, hv, sv) == [time |-> t, holdValue |-> hv, strategyValue |-> sv]

RecordValues ==
    {Record(t, FromInt(v[1]), FromInt(v[2])) :
        t \in RecordTimes \cup {NoTime},
        v \in {<<0, 2>>, <<1, 0>>, <<2, 2>>}}

\* the query parameters the records depend on, the step that obtains the
\* records, what the source holds, and whether the "time" strings of its
\* records are ISO 8601 (time_format "iso") or follow a strftime pattern
ChartQuery(p, s, e, cap, source, stored, iso) ==
    [points |-> p, start |-> s, end |-> e, initial_capital |-> cap,
     source |-> source, stored |-> stored, iso_times |-> iso]

NoChartQuery == ChartQuery(NoPoints, NoTime, NoTime, 1, "demo", <<>>, TRUE)

-----------------------------------------------------------------------------
(* align_price_and_sentiment *)

\* a missing value of a float column
NaN == [nan |-> TRUE, v |-> Zero]
Num(x) == [nan |-> FALSE, v |-> x]

SortedByTs(seq) ==
    \A a, b \in 1 .. Len(seq) : a < b => seq[a].ts <= seq[b].ts
StrictlySorted(seq) ==
    \A a, b \in 1 .. Len(seq) : a < b => seq[a] < seq[b]

SeqsUpTo(S, n) == UNION {[1 .. m -> S] : m \in 0 .. n}

\* price.sort_index(): timestamps of the bars, unique and ascending
PriceIndexes ==
    {q \in SeqsUpTo(Ticks, MaxTick + 1) : Len(q) >= 1 /\ StrictlySorted(q)}

\* sentiment.sort_index(): sparse points, ascending, ties allowed
SentimentFrames ==
    {q \in SeqsUpTo([ts : Ticks, sentiment : {FromInt(-1), One}], MaxSent) :
        SortedByTs(q)}

AsofMatchesStrict(sts, t) == sts < t

\* direction="backward" with allow_exact_matches (the default)
AsofMatches(sts, t) == sts <= t

\* merge_asof's scan: move right_pos past every right row that matches
RECURSIVE Advance(_, _, _)
Advance(rp, right, t) ==
    IF rp < Len(right) /\ AsofMatches(right[rp + 1].ts, t)
    THEN Advance(rp + 1, right, t)
    ELSE rp

\* np.searchsorted(sentiment_ts_np, t_int, side="right")
SearchSortedRight(tss, t) == Cardinality({k \in 1 .. Len(tss) : tss[k].ts <= t})

RECURSIVE Pow2(_)
Pow2(k) == IF k = 0 THEN 1 ELSE 2 * Pow2(k - 1)

\* 0.5 ** (dt / half_life), the time difference counted in half-lives
DecayFactor(dt) == Rat(1, Pow2(dt))

\* float * float with NaN propagating
NanMul(x, f) == IF x.nan THEN NaN ELSE Num(RMul(x.v, f))

AlInit ==
    /\ detect = NoDetect
    /\ xb = <<>>
    /\ runs = <<>>
    /\ runners = <<>>
    /\ objects = <<>>
    /\ cache_file = <<>>
    /\ threads = <<>>
    /\ price_times \in PriceIndexes
    /\ sentiment_pts \in SentimentFrames
    /\ apply_time_decay \in BOOLEAN
    /\ merged = <<>>
    /\ right_pos = 0
    /\ last_sent_ts = <<>>
    /\ apc = "merge"
    \* run_backtest is not running
    /\ params = [window |-> 1, alpha |-> One, max_drawdown |-> One]
    /\ price = [k \in Bars |-> 1]
    /\ sentiment = Zeros
    /\ ret = Zeros
    /\ target_pos = Zeros
    /\ position_raw = Zeros
    /\ position = Zeros
    /\ equity = Ones
    /\ peak = One
    /\ i = 0
    /\ pc = "idle"
    \* chart_data serves no request
    /\ fns = PipelineFunctions
    /\ merged_dir = {}
    /\ results_dir = <<>>
    /\ demo_json = FALSE
    /\ sentiment_csv = FALSE
    /\ price_parquet = FALSE
    /\ prepared = NoSlice
    /\ ui_json = <<>>
    /\ jobs = <<>>
    /\ nreq = 0
    /\ req = NoRequest
    /\ resp = NoResponse
    \* no records are being returned
    /\ rq = NoChartQuery
    /\ points = NoPoints
    /\ obtained = <<>>
    /\ filtered = <<>>
    /\ records = <<>>
    /\ rpc = "idle"

\* pd.merge_asof, one left row at a time
MergeAsofStep ==
    /\ apc = "merge"
    /\ Len(merged) < Len(price_times)
    /\ LET t == price_times[Len(merged) + 1]
           rp0 == IF right_pos < 0 THEN 0 ELSE right_pos
           rp == Advance(rp0, sentiment_pts, t) - 1
       IN  /\ right_pos' = rp
           /\ merged' = Append(merged,
                 [timestamp |-> t,
                  right_indexer |-> rp,
                  sentiment |-> IF rp < 0 THEN NaN
                                ELSE Num(sentiment_pts[rp + 1].sentiment)])
    /\ UNCHANGED <<price_times, sentiment_pts, apply_time_decay, last_sent_ts,
                   apc, notAl>>

\* the merge is complete: return it, or go on to the time decay
MergeAsofDone ==
    /\ apc = "merge"
    /\ Len(merged) = Len(price_times)
    /\ apc' = IF apply_time_decay /\ Len(sentiment_pts) > 0
              THEN "search" ELSE "done"
    /\ UNCHANGED <<price_times, sentiment_pts, apply_time_decay, merged,
                   right_pos, last_sent_ts, notAl>>

\* one pass of the loop that looks up the last sentiment time of a bar;
\* -1 stands for the NaN appended when there is none
SearchStep ==
    /\ apc = "search"
    /\ Len(last_sent_ts) < Len(merged)
    /\ LET t == merged[Len(last_sent_ts) + 1].timestamp
           pos == SearchSortedRight(sentiment_pts, t) - 1
       IN  last_sent_ts' = Append(last_sent_ts,
                                  IF pos < 0 THEN -1
                                  ELSE sentiment_pts[pos + 1].ts)
    /\ UNCHANGED <<price_times, sentiment_pts, apply_time_decay, merged,
                   right_pos, apc, notAl>>

\* decay_factor and merged["sentiment"] * decay_factor
ApplyDecay ==
    /\ apc = "search"
    /\ Len(last_sent_ts) = Len(merged)
    /\ merged' =
         [k \in 1 .. Len(merged) |->
            LET valid == last_sent_ts[k] # -1
                factor == IF valid
                          THEN DecayFactor(merged[k].timestamp - last_sent_ts[k])
                          ELSE Zero
            IN  [merged[k] EXCEPT !.sentiment = NanMul(@, factor)]]
    /\ apc' = "done"
    /\ UNCHANGED <<price_times, sentiment_pts, apply_time_decay, right_pos,
                   last_sent_ts, notAl>>

AlNext == MergeAsofStep \/ MergeAsofDone \/ SearchStep \/ ApplyDecay

SpecAlign == AlInit /\ [][AlNext]_vars

-----------------------------------------------------------------------------
(* Properties of align_price_and_sentiment *)

\* the last sentiment row at or before t (0: there is none)
LatestAtOrBefore(t) ==
    LET S == {k \in 1 .. Len(sentiment_pts) : sentiment_pts[k].ts <= t}
    IN  IF S = {} THEN 0 ELSE CHOOSE k \in S : \A j \in S : j <= k

Decayed == apc = "done" /\ apply_time_decay /\ Len(sentiment_pts) > 0

\* C1: every row of the merged frame takes its sentiment from the latest
\* sentiment point at or before the bar's timestamp (a point exactly at the
\* timestamp counts), never from a later one, and the finished frame has
\* exactly one row per price bar.
C1_BackwardAlignment ==
    /\ Len(merged) <= Len(price_times)
    /\ apc = "done" => Len(merged) = Len(price_times)
    /\ \A k \in 1 .. Len(merged) :
          LET t == price_times[k]
              j == LatestAtOrBefore(t)
          IN  /\ merged[k].timestamp = t
              /\ merged[k].right_indexer = j - 1
              /\ j # 0 => /\ sentiment_pts[j].ts <= t
                          /\ merged[k].sentiment =
                               Num(IF Decayed
                                   THEN RMul(sentiment_pts[j].sentiment,
                                             DecayFactor(t - sentiment_pts[j].ts))
                                   ELSE sentiment_pts[j].sentiment)

\* a finished alignment where a bar has a sentiment point exactly at its
\* timestamp and uses it although a later point with another value exists,
\* and where another bar lies strictly after its sentiment point
C1_Witness ==
    /\ apc = "done"
    /\ \E k \in 1 .. Len(merged) : \E j, l \in 1 .. Len(sentiment_pts) :
          /\ sentiment_pts[j].ts = merged[k].timestamp
          /\ merged[k].right_indexer = j - 1
          /\ sentiment_pts[l].ts > merged[k].timestamp
          /\ sentiment_pts[l].sentiment # sentiment_pts[j].sentiment
    /\ \E k \in 1 .. Len(merged) :
          /\ merged[k].right_indexer >= 0
          /\ sentiment_pts[merged[k].right_indexer + 1].ts < merged[k].timestamp

\* C23: in the finished frame every bar without a sentiment point at or before
\* its timestamp has the sentiment 0, not a missing value, with and without
\* time decay and also for an empty sentiment series.
C23_NoPriorSentimentIsZero ==
    apc = "done" =>
        \A k \in 1 .. Len(merged) :
            LatestAtOrBefore(price_times[k]) = 0 =>
                merged[k].sentiment = Num(Zero)

-----------------------------------------------------------------------------
(* run_backtest as a state machine *)

BtInit ==
    /\ detect = NoDetect
    /\ xb = <<>>
    /\ runs = <<>>
    /\ runners = <<>>
    /\ objects = <<>>
    /\ cache_file = <<>>
    /\ threads = <<>>
    /\ params \in StrategyParams
    /\ \/ /\ price \in [Bars -> PriceValues]
          /\ sentiment \in [Bars -> SentimentValues]
       \/ /\ price = ScenarioPrice
          /\ sentiment \in [Bars -> ScenarioSentiments]
    /\ ret = Zeros
    /\ target_pos = Zeros
    /\ position_raw = Zeros
    /\ position = Zeros
    /\ equity = Ones
    /\ peak = One
    /\ i = 0
    /\ pc = "build_signals"
    \* align_price_and_sentiment is not running
    /\ price_times = <<>>
    /\ sentiment_pts = <<>>
    /\ apply_time_decay = FALSE
    /\ merged = <<>>
    /\ right_pos = 0
    /\ last_sent_ts = <<>>
    /\ apc = "idle"
    \* chart_data serves no request
    /\ fns = PipelineFunctions
    /\ merged_dir = {}
    /\ results_dir = <<>>
    /\ demo_json = FALSE
    /\ sentiment_csv = FALSE
    /\ price_parquet = FALSE
    /\ prepared = NoSlice
    /\ ui_json = <<>>
    /\ jobs = <<>>
    /\ nreq = 0
    /\ req = NoRequest
    /\ resp = NoResponse
    \* no records are being returned
    /\ rq = NoChartQuery
    /\ points = NoPoints
    /\ obtained = <<>>
    /\ filtered = <<>>
    /\ records = <<>>
    /\ rpc = "idle"

\* run_backtest line 144 and build_signals up to the smoothing loop
BuildSignals ==
    /\ pc = "build_signals"
    /\ ret' = PctChange(price)
    /\ target_pos' = TargetPos(sentiment, params.window)
    /\ position_raw' = Zeros
    /\ i' = 1
    /\ pc' = "smooth"
    /\ UNCHANGED <<params, price, sentiment, position, equity, peak, notBt>>

\* one pass of the smoothing loop of build_signals
SmoothStep ==
    /\ pc = "smooth"
    /\ i < NumBars
    /\ position_raw' = [position_raw EXCEPT
                          ![i] = Smooth(params.alpha, target_pos[i],
                                        position_raw[i - 1])]
    /\ i' = i + 1
    /\ UNCHANGED <<params, price, sentiment, ret, target_pos, position,
                   equity, peak, pc, notBt>>

\* build_signals returns; apply_risk_control sets up its arrays
RiskInit ==
    /\ pc = "smooth"
    /\ i >= NumBars
    /\ position' = Zeros
    /\ equity' = Ones
    /\ peak' = Ones[0]
    /\ i' = 1
    /\ pc' = "risk"
    /\ UNCHANGED <<params, price, sentiment, ret, target_pos, position_raw, notBt>>

\* one pass of the loop of apply_risk_control
RiskStep ==
    /\ pc = "risk"
    /\ i < NumBars
    /\ LET pos1 == [position EXCEPT ![i] = position_raw[i]]
           e == EquityStep(equity, pos1, ret, i)
           pk == NewPeak(peak, e)
           dd == Drawdown(e, pk)
       IN  /\ equity' = [equity EXCEPT ![i] = e]
           /\ peak' = pk
           /\ position' = [pos1 EXCEPT
                             ![i] = Override(dd, pos1[i], params.max_drawdown)]
    /\ i' = i + 1
    /\ UNCHANGED <<params, price, sentiment, ret, target_pos, position_raw, pc, notBt>>

\* apply_risk_control returns
RiskDone ==
    /\ pc = "risk"
    /\ i >= NumBars
    /\ pc' = "done"
    /\ UNCHANGED <<params, price, sentiment, ret, target_pos, position_raw,
                   position, equity, peak, i, notBt>>

BtNext == BuildSignals \/ SmoothStep \/ RiskInit \/ RiskStep \/ RiskDone

SpecBacktest == BtInit /\ [][BtNext]_vars

-----------------------------------------------------------------------------
(* Properties of apply_risk_control and build_signals *)

\* the bars whose pass of the risk loop is complete are 1 .. i-1
InRisk == pc \in {"risk", "done"}

RECURSIVE RunningPeak(_)
RunningPeak(k) ==
    IF k = 0 THEN equity[0] ELSE RMax(RunningPeak(k - 1), equity[k])

\* the drawdown of bar k against the maximum of equity[0..k] exceeds the limit
Exceeds(k) ==
    RLt(params.max_drawdown, RSub(One, RDiv(equity[k], RunningPeak(k))))

\* C2: at every completed bar k >= 1 the drawdown is measured against the
\* running peak max(equity[0..k]); the final position of the bar is 0 when
\* that drawdown exceeds max_drawdown and the smoother's output otherwise.
C2_DrawdownAgainstRunningPeak ==
    InRisk =>
        /\ peak = RunningPeak(i - 1)
        /\ \A k \in 1 .. (i - 1) :
              position[k] = IF Exceeds(k) THEN Zero ELSE position_raw[k]

\* the kill-switch fired on a bar whose smoothed position was not 0 after the
\* equity had risen above its start, and another bar kept its smoothed position
C2_Witness ==
    /\ pc = "done"
    /\ \E k \in 1 .. (NumBars - 1) :
          /\ Exceeds(k)
          /\ position_raw[k] # Zero
          /\ RLt(One, RunningPeak(k))
    /\ \E k \in 1 .. (NumBars - 1) :
          ~Exceeds(k) /\ position[k] # Zero

\* C3 (as stated): after the drawdown exceeded max_drawdown at bar k the
\* earlier bars keep their positions and bar k+1 carries the smoother's output.
C3_OverrideNotPersistent ==
    InRisk =>
        \A k \in 1 .. (i - 2) :
            Exceeds(k) =>
                /\ \A j \in 1 .. (k - 1) :
                      position[j] = IF Exceeds(j) THEN Zero ELSE position_raw[j]
                /\ position[k + 1] = position_raw[k + 1]

\* C3 (amended): a pass of the risk loop for bar i leaves the positions of the
\* bars before i as they were, and when the drawdown exceeded max_drawdown at
\* bar i-1 the final position of bar i is 0 whatever the smoother's output.
C3_OverrideCarriesToNextBar ==
    [][(pc = "risk" /\ i' = i + 1) =>
          /\ \A k \in 0 .. (i - 1) : position'[k] = position[k]
          /\ (i >= 2 /\ Exceeds(i - 1)) => position'[i] = Zero]_vars

\* the bar after a fired kill-switch had a nonzero smoothed position and a
\* nonzero return, and its final position is 0
C3_Witness ==
    /\ InRisk
    /\ \E k \in 1 .. (i - 2) :
          /\ Exceeds(k)
          /\ position_raw[k + 1] # Zero
          /\ ret[k + 1] # Zero
          /\ position[k + 1] = Zero

\* C4: equity[0] = 1 and equity[k] = equity[k-1] * (1 + position[k-1] * ret[k])
\* with the final position of bar k-1, for every completed bar k >= 1.
C4_EquityRecurrence ==
    InRisk =>
        /\ equity[0] = One
        /\ \A k \in 1 .. (i - 1) :
              equity[k] = RMul(equity[k - 1],
                               RAdd(One, RMul(position[k - 1], ret[k])))

\* one bar earned on a final position, another saw a nonzero return after an
\* overridden bar (its smoothed position was not 0) and kept the equity
C4_Witness ==
    /\ pc = "done"
    /\ \E k \in 1 .. (NumBars - 1) : equity[k] # equity[k - 1]
    /\ \E k \in 2 .. (NumBars - 1) :
          /\ position_raw[k - 1] # Zero
          /\ position[k - 1] = Zero
          /\ position_raw[k] # Zero
          /\ ret[k] # Zero
          /\ equity[k] = equity[k - 1]

\* C28: the kill-switch is absorbing: once the drawdown exceeded max_drawdown
\* at bar k, every later completed bar j has equity[j] = equity[k] and the
\* final position 0, whatever its return and the smoother's output.
C28_KillSwitchAbsorbing ==
    InRisk =>
        \A k \in 1 .. (i - 1) :
            Exceeds(k) =>
                \A j \in (k + 1) .. (i - 1) :
                    /\ equity[j] = equity[k]
                    /\ position[j] = Zero

\* a finished run where the drawdown exceeded the limit at a bar before the
\* last one and a later bar had a nonzero return and a nonzero smoothed
\* position of the sign that would have recovered the loss
C28_Witness ==
    /\ pc = "done"
    /\ \E k \in 1 .. (NumBars - 2) : \E j \in (k + 1) .. (NumBars - 1) :
          /\ Exceeds(k)
          /\ RLt(Zero, RMul(position_raw[j], ret[j]))
          /\ position[j] = Zero
          /\ equity[j] = equity[k]

\* the bars whose pass of the smoothing loop is complete
Smoothed == IF pc = "smooth" THEN 1 .. (i - 1)
            ELSE IF InRisk THEN 1 .. (NumBars - 1) ELSE {}

InUnit(x) == RLe(FromInt(-1), x) /\ RLe(x, One)

\* C5: position_raw[0] = 0, position_raw[k] = alpha * target_pos[k] +
\* (1 - alpha) * position_raw[k-1] for k >= 1, and every smoothed and every
\* final position lies in [-1, 1].
C5_PositionRecurrenceInRange ==
    /\ position_raw[0] = Zero
    /\ \A k \in Smoothed :
          position_raw[k] =
              RAdd(RMul(params.alpha, target_pos[k]),
                   RMul(RSub(One, params.alpha), position_raw[k - 1]))
    /\ \A k \in Bars : InUnit(position_raw[k]) /\ InUnit(position[k])

\* a run with alpha strictly inside (0,1) whose target reached the bound 1 or
\* -1 and whose smoothed position moved strictly inside the interval
C5_Witness ==
    /\ pc = "done"
    /\ params.alpha \notin {Zero, One}
    /\ \E k \in Bars : RAbs(target_pos[k]) = One
    /\ \E k \in Bars : position_raw[k] # Zero /\ RAbs(position_raw[k]) # One
    /\ \E k \in Bars : position[k] # Zero

\* the rolling mean of the sentiment at bar k, for a window of 1 or 2 bars
MeanUpTo2(k) ==
    IF params.window = 1 \/ k = 0 THEN sentiment[k]
    ELSE RDiv(RAdd(sentiment[k - 1], sentiment[k]), FromInt(2))

\* +1, -1 or 0 as x lies above hi, below lo or neither
Beyond(x, lo, hi) == IF RLt(hi, x) THEN 1 ELSE IF RLt(x, lo) THEN -1 ELSE 0

\* C22: at every bar target_pos = sign(w_trend * trend + w_mom * momentum) *
\* min(1, |sent_mean| / max_strength) with trend and momentum from strict
\* comparisons with upper_th, lower_th and +-delta_th and a sent_diff of 0 at
\* bar 0; for prices 100, 110, 99, sentiments 0, 0.6, 0.6, window 2, alpha 1
\* and max_drawdown 0.5 the run ends with position[1] = 0.6, equity[1] = 1,
\* equity[2] = 0.94 and no override at bar 1 or 2.
C22_TargetPositionAndScenario ==
    /\ (pc # "build_signals" /\ params.window <= 2) =>
          \A k \in Bars :
              LET m == MeanUpTo2(k)
                  d == IF k = 0 THEN Zero ELSE RSub(m, MeanUpTo2(k - 1))
                  trend == Beyond(m, lower_th, upper_th)
                  mom == Beyond(d, RNeg(delta_th), delta_th)
                  raw == RAdd(RMul(w_trend, FromInt(trend)),
                              RMul(w_mom, FromInt(mom)))
                  strength == IF RLt(RAbs(m), max_strength)
                              THEN RDiv(RAbs(m), max_strength) ELSE One
              IN  target_pos[k] =
                      IF RLt(Zero, raw) THEN strength
                      ELSE IF RLt(raw, Zero) THEN RNeg(strength) ELSE Zero
    /\ (pc = "done" /\ price = ScenarioPrice /\ sentiment = ScenarioSentiment
          /\ params = [window |-> 2, alpha |-> One,
                       max_drawdown |-> Rat(1, 2)]) =>
          /\ position[1] = Rat(3, 5)
          /\ equity[1] = One
          /\ equity[2] = Rat(47, 50)
          /\ position[2] = position_raw[2]

\* the run over prices 100, 110, 99 and sentiments 0, 0.6, 0.6 has ended
C22_Witness ==
    /\ pc = "done"
    /\ price = ScenarioPrice
    /\ sentiment = ScenarioSentiment
    /\ params = [window |-> 2, alpha |-> One, max_drawdown |-> Rat(1, 2)]
    /\ target_pos[1] = Rat(3, 5)
    /\ equity[2] = Rat(47, 50)

-----------------------------------------------------------------------------
(* chart_data: lines 541-606, auto-resolving a backtest from results/ *)

Covers(f, s, e) ==
    IF ~HasTimeIndex(f) THEN FALSE
    ELSE IF s # NoTime /\ e # NoTime THEN f.tmin <= s /\ f.tmax >= e
    ELSE IF s # NoTime THEN f.tmin <= s /\ s <= f.tmax
    ELSE IF e # NoTime THEN f.tmin <= e /\ e <= f.tmax
    ELSE FALSE

AutoResolveNewest(s, e) ==
    IF results_dir # <<>> THEN results_dir[Len(results_dir)] ELSE NoFile

AutoResolve(s, e) ==
    LET candidates == Range(results_dir)
        covering == {f \in candidates : Covers(f, s, e)}
        month_cands == {f \in candidates :
                           f.kind = "month" /\ s # NoTime /\ f.id = MonthOf(s)}
    IN  IF covering # {} THEN Newest(results_dir, covering)
        ELSE IF month_cands # {} THEN Newest(results_dir, month_cands)
        ELSE IF candidates # {} THEN Newest(results_dir, candidates)
        ELSE NoFile

-----------------------------------------------------------------------------
(* chart_data: lines 607-703, the quick path over data/merged *)

\* the overlap test of lines 633-640; with one bound missing the comparison
\* with None raises and the file is skipped by the except of line 644
SliceUsed(f, s, e) ==
    IF ~HasTimeIndex(f) THEN FALSE
    ELSE IF s = NoTime /\ e = NoTime THEN TRUE
    ELSE IF s = NoTime \/ e = NoTime THEN FALSE
    ELSE ~(f.tmax < s \/ f.tmin > e)

UsedFiles(s, e) == {f \in merged_dir : SliceUsed(f, s, e)}

MinOf(S) == CHOOSE x \in S : \A y \in S : x <= y
MaxOf(S) == CHOOSE x \in S : \A y \in S : y <= x

RECURSIVE SumRows(_, _, _)
SumRows(S, lo, hi) ==
    IF S = {} THEN 0
    ELSE LET f == CHOOSE g \in S : TRUE
         IN  f.rows * Cardinality({t \in f.tmin .. f.tmax : lo <= t /\ t <= hi})
             + SumRows(S \ {f}, lo, hi)

\* df_req = df_slice.loc[start_bound:end_bound]
DfReq(s, e) ==
    LET used == UsedFiles(s, e)
        lo == IF s # NoTime THEN s ELSE MinOf({f.tmin : f \in used})
        hi == IF e # NoTime THEN e ELSE MaxOf({f.tmax : f \in used})
    IN  IF used = {} \/ SumRows(used, lo, hi) = 0 THEN NoSlice
        ELSE Slice(lo, hi, SumRows(used, lo, hi))

\* if len(df_req) <= SYNC_ROW_LIMIT
RunsInline(rows) == rows <= SYNC_ROW_LIMIT

\* a background task: the slice its request prepared, and the frame it read
Job(slice, state) == [slice |-> slice, state |-> state, input |-> NoSlice]

\* uuid.uuid4().hex: an id no earlier job has
FreshJobId == Len(jobs) + 1

RuntimeBacktest(df) == File("runtime", 0, df.lo, df.hi, 1)

\* what the quick path does for a request: its outcome, whether it returns the
\* response itself, the files it leaves and the job it adds. raises names the
\* pipeline function that raises when this request calls it.
QuickPath(r, raises) ==
    LET df == DfReq(r.start, r.end)
        keep == [outcome |-> "empty", returns |-> FALSE,
                 prepared |-> prepared, results |-> results_dir,
                 jobs |-> jobs, job |-> 0]
    IN  IF df.rows = 0 THEN keep
        ELSE IF ~({"run_backtest", "build_records"} \subseteq fns)
        THEN [keep EXCEPT !.outcome = "generated", !.returns = TRUE,
                          !.prepared = df]
        ELSE IF RunsInline(df.rows)
        THEN IF raises = "run_backtest"
             THEN [keep EXCEPT !.outcome = "raised", !.prepared = df]
             ELSE IF raises = "build_records"
             THEN [keep EXCEPT !.outcome = "raised", !.prepared = df,
                      !.results = WriteFile(results_dir, RuntimeBacktest(df))]
             ELSE [keep EXCEPT !.outcome = "sync", !.prepared = df,
                      !.results = WriteFile(results_dir, RuntimeBacktest(df))]
        ELSE IF r.background_tasks
        THEN [keep EXCEPT !.outcome = "queued", !.returns = TRUE,
                          !.prepared = df, !.job = FreshJobId,
                          !.jobs = Append(jobs, Job(df, "queued"))]
        ELSE [keep EXCEPT !.outcome = "nojob", !.returns = TRUE,
                          !.prepared = df]

-----------------------------------------------------------------------------
(* chart_data: the whole handler *)

\* the frame prepare_dataset_func writes for the full pipeline
PipelineFrame == Slice(0, MaxTick, 1)

\* lines 705-779, reached when the quick path has not returned: the response,
\* and the files the full pipeline leaves
Fallbacks(auto, quick, raises) ==
    LET keep == [response |-> Response(500, "error", "", "", 0),
                 final |-> "parquet",
                 prepared |-> quick.prepared, results |-> quick.results]
        label == IF quick.outcome = "sync" THEN "merged-sync" ELSE "unknown"
    IN  IF auto # NoFile
        THEN IF "build_records" \notin fns \/ auto \notin Range(results_dir)
                  \/ ~HasTimeIndex(auto) \/ raises = "build_records"
             THEN keep
             ELSE [keep EXCEPT !.response =
                      Response(200, "records", "parquet", "results", 0)]
        ELSE IF demo_json
        THEN IF raises = "json_load"
             THEN [keep EXCEPT !.final = "demo"]
             ELSE [keep EXCEPT !.final = "demo", !.response =
                      Response(200, "records", "demo", "demo", 0)]
        ELSE IF ~sentiment_csv
        THEN [keep EXCEPT !.final = "none", !.response =
                 Response(404, "error", "", "", 0)]
        ELSE IF ~price_parquet \/ fns # PipelineFunctions
        THEN [keep EXCEPT !.final = "pipeline", !.response =
                 Response(202, "generated", "", "", 0)]
        ELSE IF raises = "run_backtest"
        THEN [keep EXCEPT !.final = "pipeline", !.prepared = PipelineFrame]
        ELSE IF raises = "build_records"
        THEN [keep EXCEPT !.final = "pipeline", !.prepared = PipelineFrame,
                 !.results = WriteFile(quick.results,
                                       RuntimeBacktest(PipelineFrame))]
        ELSE [keep EXCEPT !.final = "pipeline", !.prepared = PipelineFrame,
                 !.results = WriteFile(quick.results,
                                       RuntimeBacktest(PipelineFrame)),
                 !.response = Response(200, "records", label, "pipeline", 0)]

\* the responses of lines 664, 676, 699 and 701
QuickResponse(quick) ==
    IF quick.outcome = "queued"
    THEN Response(202, "queued", "merged-queued", "", quick.job)
    ELSE IF quick.outcome = "nojob"
    THEN Response(202, "queued", "", "", 0)
    ELSE Response(202, "generated", "", "", 0)

\* the quick path is not entered: a backtest parquet is given or was resolved
Skipped ==
    [outcome |-> "skipped", returns |-> FALSE,
     prepared |-> prepared, results |-> results_dir, jobs |-> jobs, job |-> 0]

\* the requests a client can send: any backtest_parquet, any window
Requests ==
    {Request(given, s, e, bg) :
        given \in {NoFile, MissingFile, StoredA, StoredB},
        s \in Times, e \in Times, bg \in BOOLEAN}

\* a GET /api/chart-data request without backtest_parquet arrives
Receive ==
    /\ ~req.pending
    /\ nreq < MaxRequests
    /\ \E r \in Requests :
          /\ r.backtest_parquet = NoFile
          /\ req' = r
    /\ nreq' = nreq + 1
    /\ UNCHANGED <<fns, merged_dir, results_dir, demo_json, sentiment_csv,
                   price_parquet, prepared, ui_json, jobs, resp, notCd>>

\* the call that raises while a request is handled, if any
Raises == {"none", "run_backtest", "build_records", "json_load"}

\* chart_data handles the request
ChartData ==
    /\ req.pending
    /\ \E raises \in Raises :
          LET auto == IF req.backtest_parquet = NoFile
                      THEN AutoResolve(req.start, req.end)
                      ELSE req.backtest_parquet
              quick == IF auto = NoFile THEN QuickPath(req, raises)
                       ELSE Skipped
              rest == Fallbacks(auto, quick, raises)
          IN  /\ jobs' = quick.jobs
              /\ IF quick.returns
                 THEN /\ resp' = [auto |-> auto, quick |-> quick.outcome,
                                  final |-> "none",
                                  response |-> QuickResponse(quick)]
                      /\ prepared' = quick.prepared
                      /\ results_dir' = quick.results
                 ELSE /\ resp' = [auto |-> auto, quick |-> quick.outcome,
                                  final |-> rest.final,
                                  response |-> rest.response]
                      /\ prepared' = rest.prepared
                      /\ results_dir' = rest.results
    /\ req' = [req EXCEPT !.pending = FALSE]
    /\ UNCHANGED <<fns, merged_dir, demo_json, sentiment_csv, price_parquet,
                   ui_json, nreq, notCd>>

-----------------------------------------------------------------------------
(* _bg_task: the background job of a queued request *)

SetJob(j, state) == [jobs EXCEPT ![j].state = state]

\* run_backtest_func(input_parquet=Path(prep), ..., output_path=Path(out_bt))
JobRunBacktest(j) ==
    /\ jobs[j].state = "queued"
    /\ \E ok \in BOOLEAN :
          IF ok
          THEN /\ jobs' = [jobs EXCEPT ![j].state = "backtested",
                                       ![j].input = prepared]
               /\ results_dir' = WriteFile(results_dir,
                     File("job", j, prepared.lo, prepared.hi, 1))
          ELSE /\ jobs' = [jobs EXCEPT ![j].state = "failed",
                                       ![j].input = prepared]
               /\ UNCHANGED results_dir
    /\ UNCHANGED <<fns, merged_dir, demo_json, sentiment_csv, price_parquet,
                   prepared, ui_json, nreq, req, resp, notCd>>

\* recs = build_records_func(Path(out_bt), ...)
JobBuildRecords(j) ==
    /\ jobs[j].state = "backtested"
    /\ \E ok \in BOOLEAN :
          jobs' = SetJob(j, IF ok THEN "built" ELSE "failed")
    /\ UNCHANGED <<fns, merged_dir, results_dir, demo_json, sentiment_csv,
                   price_parquet, prepared, ui_json, nreq, req, resp, notCd>>

\* with open(out_json, "w") as f: json.dump(recs, f)
JobWriteJson(j) ==
    /\ jobs[j].state = "built"
    /\ \E written \in {"complete", "partial", "none"} :
          /\ jobs' = SetJob(j, IF written = "complete" THEN "done"
                                ELSE "failed")
          /\ ui_json' = IF written = "none" THEN ui_json
                        ELSE [k \in DOMAIN ui_json \cup {j} |->
                                 IF k = j THEN written ELSE ui_json[k]]
    /\ UNCHANGED <<fns, merged_dir, results_dir, demo_json, sentiment_csv,
                   price_parquet, prepared, nreq, req, resp, notCd>>

\* the executor runs the next stage of some job
RunJob ==
    /\ ~req.pending
    /\ \E j \in DOMAIN jobs :
          JobRunBacktest(j) \/ JobBuildRecords(j) \/ JobWriteJson(j)

\* one request meets the files earlier runs have left
CdInit ==
    /\ detect = NoDetect
    /\ xb = <<>>
    /\ runs = <<>>
    /\ runners = <<>>
    /\ objects = <<>>
    /\ cache_file = <<>>
    /\ threads = <<>>
    /\ fns \in ImportOutcomes
    /\ merged_dir \in MergedDirs
    /\ results_dir \in ResultsDirs
    /\ demo_json \in BOOLEAN
    /\ sentiment_csv \in BOOLEAN
    /\ price_parquet \in BOOLEAN
    /\ prepared = NoSlice
    /\ ui_json = <<>>
    /\ jobs = <<>>
    /\ nreq = 1
    /\ req \in Requests
    /\ resp = NoResponse
    \* neither run_backtest nor align_price_and_sentiment is running
    /\ params = [window |-> 1, alpha |-> One, max_drawdown |-> One]
    /\ price = [k \in Bars |-> 1]
    /\ sentiment = Zeros
    /\ ret = Zeros
    /\ target_pos = Zeros
    /\ position_raw = Zeros
    /\ position = Zeros
    /\ equity = Ones
    /\ peak = One
    /\ i = 0
    /\ pc = "idle"
    /\ price_times = <<>>
    /\ sentiment_pts = <<>>
    /\ apply_time_decay = FALSE
    /\ merged = <<>>
    /\ right_pos = 0
    /\ last_sent_ts = <<>>
    /\ apc = "idle"
    \* no records are being returned
    /\ rq = NoChartQuery
    /\ points = NoPoints
    /\ obtained = <<>>
    /\ filtered = <<>>
    /\ records = <<>>
    /\ rpc = "idle"

\* a server with merged slices only, before its first request
JobsInit ==
    /\ detect = NoDetect
    /\ xb = <<>>
    /\ runs = <<>>
    /\ runners = <<>>
    /\ objects = <<>>
    /\ cache_file = <<>>
    /\ threads = <<>>
    /\ fns = PipelineFunctions
    /\ merged_dir \in MergedDirs \ {{}}
    /\ results_dir = <<>>
    /\ demo_json \in BOOLEAN
    /\ sentiment_csv = FALSE
    /\ price_parquet = FALSE
    /\ prepared = NoSlice
    /\ ui_json = <<>>
    /\ jobs = <<>>
    /\ nreq = 0
    /\ req = NoRequest
    /\ resp = NoResponse
    \* neither run_backtest nor align_price_and_sentiment is running
    /\ params = [window |-> 1, alpha |-> One, max_drawdown |-> One]
    /\ price = [k \in Bars |-> 1]
    /\ sentiment = Zeros
    /\ ret = Zeros
    /\ target_pos = Zeros
    /\ position_raw = Zeros
    /\ position = Zeros
    /\ equity = Ones
    /\ peak = One
    /\ i = 0
    /\ pc = "idle"
    /\ price_times = <<>>
    /\ sentiment_pts = <<>>
    /\ apply_time_decay = FALSE
    /\ merged = <<>>
    /\ right_pos = 0
    /\ last_sent_ts = <<>>
    /\ apc = "idle"
    \* no records are being returned
    /\ rq = NoChartQuery
    /\ points = NoPoints
    /\ obtained = <<>>
    /\ filtered = <<>>
    /\ records = <<>>
    /\ rpc = "idle"

CdNext == ChartData \/ RunJob

SpecChart == CdInit /\ [][CdNext]_vars

JobsNext == Receive \/ ChartData \/ RunJob

SpecJobs == JobsInit /\ [][JobsNext]_vars

-----------------------------------------------------------------------------
(* Properties of chart_data and its background jobs *)

\* chart_data has answered the request req
Answered == nreq > 0 /\ ~req.pending

\* a slice of data/merged shares a tick with the window of the request
OverlappingSlice ==
    /\ req.start # NoTime
    /\ req.end # NoTime
    /\ \E f \in merged_dir : f.tmin <= req.end /\ req.start <= f.tmax

\* C6: a request with no explicit source is answered from a backtest of the
\* results directory only when no slice of data/merged overlaps its window:
\* the merged slices are consulted before the results directory.
C6_MergedBeforeResults ==
    (Answered /\ req.backtest_parquet = NoFile /\ OverlappingSlice)
        => resp.auto = NoFile

\* C7: when the merged step finds a non-empty slice, the pipeline functions
\* are imported, none of them raises and background tasks can be added, a
\* slice of at most SYNC_ROW_LIMIT rows is backtested inline and the response
\* carries the records of that run, and a larger slice gets a queued response
\* with a job and is not backtested inline.
C7_InlineBelowThresholdQueuedAbove ==
    (Answered /\ resp.quick \in {"sync", "queued"}) =>
        LET rows == DfReq(req.start, req.end).rows
        IN  IF rows <= SYNC_ROW_LIMIT
            THEN /\ resp.quick = "sync"
                 /\ resp.response.status = "records"
                 /\ resp.final = "none"
            ELSE /\ resp.quick = "queued"
                 /\ resp.response.status = "queued"

\* C8: every response with status "queued" carries the id of a job that has
\* been added to the background tasks.
C8_QueuedHasJob ==
    (Answered /\ resp.response.status = "queued") =>
        /\ resp.response.job_id # 0
        /\ resp.response.job_id \in DOMAIN jobs

\* C9: the frame a background job reads is the slice its own request
\* prepared, whatever requests were handled in between.
C9_JobReadsOwnSlice ==
    \A j \in DOMAIN jobs :
        jobs[j].state # "queued" => jobs[j].input = jobs[j].slice

\* C10: after a background job has failed neither its backtest parquet nor
\* its UI JSON exists.
C10_FailedJobLeavesNoOutput ==
    \A j \in DOMAIN jobs :
        jobs[j].state = "failed" =>
            /\ \A f \in Range(results_dir) : ~(f.kind = "job" /\ f.id = j)
            /\ j \notin DOMAIN ui_json

\* C11: a request with no explicit source is answered with an error only
\* by the last step of the chain (no sentiment CSV, or the full pipeline
\* failing): a failure of the results file or of the demo JSON is swallowed
\* and the next fallback is tried.
C11_ErrorOnlyWhenChainExhausted ==
    (Answered /\ req.backtest_parquet = NoFile
        /\ resp.response.status = "error")
        => resp.final \in {"none", "pipeline"}

\* the request reached the last resort: no results file, no response from
\* the merged step, no demo JSON
LastResort ==
    /\ Answered
    /\ resp.auto = NoFile
    /\ resp.quick \in {"empty", "raised", "sync"}
    /\ ~demo_json

\* C13: when the last resort lacks the sentiment CSV, the price parquet or a
\* pipeline function, the response is an error.
C13_UnavailablePipelineFails ==
    (LastResort /\ (~sentiment_csv \/ ~price_parquet
                       \/ fns # PipelineFunctions))
        => resp.response.status = "error"

\* C14: the file resolved from results/ is never one without a time index.
C14_UnreadableCandidateNotSelected ==
    (Answered /\ req.backtest_parquet = NoFile /\ resp.auto # NoFile)
        => HasTimeIndex(resp.auto)

\* the window of the request is not inverted
WellFormedWindow ==
    (req.start # NoTime /\ req.end # NoTime) => req.start <= req.end

\* the readable slices whose span shares a tick with the window; a missing
\* bound does not constrain
Overlapping ==
    {f \in merged_dir :
        /\ HasTimeIndex(f)
        /\ req.start = NoTime \/ req.start <= f.tmax
        /\ req.end = NoTime \/ f.tmin <= req.end}

\* C15: the merged step uses exactly the slices that overlap the window,
\* given by both bounds, one bound or none, and finds rows whenever a slice
\* overlaps.
C15_OverlappingSlicesMerged ==
    (Answered /\ resp.quick # "skipped" /\ WellFormedWindow) =>
        /\ UsedFiles(req.start, req.end) = Overlapping
        /\ Overlapping # {} => resp.quick # "empty"

\* the span of g contains the window s..e, of which a bound is given
Contains(g, s, e) ==
    /\ HasTimeIndex(g)
    /\ s # NoTime \/ e # NoTime
    /\ s # NoTime => (g.tmin <= s /\ s <= g.tmax)
    /\ e # NoTime => (g.tmin <= e /\ e <= g.tmax)

\* f is the choice the three tiers allow among the files of dir
TierChoice(dir, s, e, f) ==
    LET cov == {g \in Range(dir) : Contains(g, s, e)}
        mon == {g \in Range(dir) :
                   s # NoTime /\ g.kind = "month" /\ g.id = MonthOf(s)}
    IN  IF dir = <<>> THEN f = NoFile
        ELSE /\ f \in Range(dir)
             /\ cov # {} => f \in cov
             /\ (cov = {} /\ mon # {}) => f \in mon
             /\ (cov = {} /\ mon = {}) => f = dir[Len(dir)]

-----------------------------------------------------------------------------
(* chart_data: lines 507-540, the point budget *)

AutoPointsInclusive(p, s, e) ==
    IF p # NoPoints THEN p
    ELSE IF s # NoTime /\ e # NoTime
    THEN IF s = BadTime \/ e = BadTime THEN 2000
         ELSE IF e - s <= 24 THEN 500
         ELSE IF e - s <= 168 THEN 1000
         ELSE IF e - s <= 720 THEN 2000
         ELSE 3000
    ELSE 2000

\* days = time_diff.total_seconds() / 86400, compared with 1, 7 and 30
AutoPoints(p, s, e) ==
    IF p # NoPoints THEN p
    ELSE IF s # NoTime /\ e # NoTime
    THEN IF s = BadTime \/ e = BadTime THEN 2000
         ELSE IF e - s < 24 THEN 500
         ELSE IF e - s < 168 THEN 1000
         ELSE IF e - s < 720 THEN 2000
         ELSE 3000
    ELSE 2000

-----------------------------------------------------------------------------
(* chart_data: lines 705-727, obtaining the records *)

\* build_records_func(..., points=points): at most points records, evenly
\* spaced
Downsample(recs, p) ==
    IF p <= 0 \/ Len(recs) <= p THEN recs
    ELSE LET step == (Len(recs) + p - 1) \div p
         IN  [k \in 1 .. ((Len(recs) + step - 1) \div step) |->
                 recs[(k - 1) * step + 1]]

\* records = json.load(f) for the demo, build_records_func(...) otherwise
Obtain(q, p) ==
    IF q.source = "demo" THEN q.stored ELSE Downsample(q.stored, p)

-----------------------------------------------------------------------------
(* chart_data: lines 782-834, the window filter *)

\* s_req / e_req: None when the string is missing or does not parse
Parse(t) == IF t = BadTime THEN NoTime ELSE t

\* datetime.fromisoformat(rec["time"]): None when the record has no time or
\* the string is not ISO 8601
TimeOf(q, rec) == IF q.iso_times THEN rec.time ELSE NoTime

\* _in_range, for a record whose time parses to t
InRange(t, s, e) ==
    /\ t # NoTime
    /\ ~(s # NoTime /\ t < s)
    /\ ~(e # NoTime /\ t > e)

WindowFilter(recs, q) ==
    IF recs # <<>> /\ (q.start # NoTime \/ q.end # NoTime)
    THEN SelectSeq(recs, LAMBDA r : InRange(TimeOf(q, r), Parse(q.start),
                                            Parse(q.end)))
    ELSE recs

-----------------------------------------------------------------------------
(* chart_data: lines 840-900, rebasing on the record at the window start *)

\* baseline_idx: the first record with a time at or after s_req, 0 for None
BaselineIdx(recs, q) ==
    LET at == {k \in 1 .. Len(recs) :
                  TimeOf(q, recs[k]) # NoTime
                      /\ TimeOf(q, recs[k]) >= q.start}
    IN  IF at = {} THEN 0 ELSE CHOOSE k \in at : \A j \in at : k <= j

RebaseValueNoCapital(v, base, cap) ==
    IF base # Zero THEN RDiv(v, base) ELSE v

\* hv / base_hold * float(initial_capital), when the base is not 0
RebaseValue(v, base, cap) ==
    IF base # Zero THEN RMul(RDiv(v, base), FromInt(cap)) ELSE v

Rebase(recs, q) ==
    IF recs = <<>> \/ Parse(q.start) = NoTime THEN recs
    ELSE LET b == BaselineIdx(recs, q)
         IN  IF b = 0 THEN recs
             ELSE LET base_hold == recs[b].holdValue
                      base_strat == recs[b].strategyValue
                  IN  IF base_hold = Zero /\ base_strat = Zero THEN recs
                      ELSE [j \in 1 .. Len(recs) |->
                              IF j < b THEN recs[j]
                              ELSE [recs[j] EXCEPT
                                      !.holdValue =
                                          RebaseValue(@, base_hold,
                                                      q.initial_capital),
                                      !.strategyValue =
                                          RebaseValue(@, base_strat,
                                                      q.initial_capital)]]

-----------------------------------------------------------------------------
(* chart_data: from the request to the payload *)

\* the point budget is settled and the records are obtained
ObtainRecords ==
    /\ rpc = "start"
    /\ points' = AutoPoints(rq.points, rq.start, rq.end)
    /\ obtained' = Obtain(rq, points')
    /\ rpc' = "obtained"
    /\ UNCHANGED <<rq, filtered, records, notRec>>

\* the records are filtered and rebased, and the payload is returned unless
\* JSONResponse raises
RespondRecords ==
    /\ rpc = "obtained"
    /\ filtered' = WindowFilter(obtained, rq)
    /\ \E ok \in BOOLEAN :
          IF ok
          THEN /\ records' = Rebase(filtered', rq)
               /\ rpc' = "responded"
          ELSE /\ records' = <<>>
               /\ rpc' = "failed"
    /\ UNCHANGED <<rq, points, obtained, notRec>>

WindowTimes == RecordTimes \cup {NoTime, BadTime}

\* a request whose source holds up to MaxRecs records
RecInit ==
    /\ detect = NoDetect
    /\ xb = <<>>
    /\ runs = <<>>
    /\ runners = <<>>
    /\ objects = <<>>
    /\ cache_file = <<>>
    /\ threads = <<>>
    /\ rq \in {ChartQuery(p, s, e, 3, source, stored, iso) :
                  p \in {NoPoints, 1}, s \in WindowTimes, e \in WindowTimes,
                  source \in {"parquet", "demo"},
                  stored \in SeqsUpTo(RecordValues, MaxRecs),
                  iso \in BOOLEAN}
    /\ points = NoPoints
    /\ obtained = <<>>
    /\ filtered = <<>>
    /\ records = <<>>
    /\ rpc = "start"
    \* neither run_backtest nor align_price_and_sentiment is running
    /\ params = [window |-> 1, alpha |-> One, max_drawdown |-> One]
    /\ price = [k \in Bars |-> 1]
    /\ sentiment = Zeros
    /\ ret = Zeros
    /\ target_pos = Zeros
    /\ position_raw = Zeros
    /\ position = Zeros
    /\ equity = Ones
    /\ peak = One
    /\ i = 0
    /\ pc = "idle"
    /\ price_times = <<>>
    /\ sentiment_pts = <<>>
    /\ apply_time_decay = FALSE
    /\ merged = <<>>
    /\ right_pos = 0
    /\ last_sent_ts = <<>>
    /\ apc = "idle"
    \* chart_data serves no request
    /\ fns = PipelineFunctions
    /\ merged_dir = {}
    /\ results_dir = <<>>
    /\ demo_json = FALSE
    /\ sentiment_csv = FALSE
    /\ price_parquet = FALSE
    /\ prepared = NoSlice
    /\ ui_json = <<>>
    /\ jobs = <<>>
    /\ nreq = 0
    /\ req = NoRequest
    /\ resp = NoResponse

RecNext == ObtainRecords \/ RespondRecords

SpecRecords == RecInit /\ [][RecNext]_vars

\* window bounds around the tiers of 1, 7 and 30 days
WindowHours == {0, 23, 24, 167, 168, 719, 720} \cup {NoTime, BadTime}

\* a request over an empty source, with windows of every tier
PointsInit ==
    /\ detect = NoDetect
    /\ xb = <<>>
    /\ runs = <<>>
    /\ runners = <<>>
    /\ objects = <<>>
    /\ cache_file = <<>>
    /\ threads = <<>>
    /\ rq \in {ChartQuery(p, s, e, 3, "demo", <<>>, TRUE) :
                  p \in {NoPoints, 1, 500},
                  s \in WindowHours, e \in WindowHours}
    /\ points = NoPoints
    /\ obtained = <<>>
    /\ filtered = <<>>
    /\ records = <<>>
    /\ rpc = "start"
    \* neither run_backtest nor align_price_and_sentiment is running
    /\ params = [window |-> 1, alpha |-> One, max_drawdown |-> One]
    /\ price = [k \in Bars |-> 1]
    /\ sentiment = Zeros
    /\ ret = Zeros
    /\ target_pos = Zeros
    /\ position_raw = Zeros
    /\ position = Zeros
    /\ equity = Ones
    /\ peak = One
    /\ i = 0
    /\ pc = "idle"
    /\ price_times = <<>>
    /\ sentiment_pts = <<>>
    /\ apply_time_decay = FALSE
    /\ merged = <<>>
    /\ right_pos = 0
    /\ last_sent_ts = <<>>
    /\ apc = "idle"
    \* chart_data serves no request
    /\ fns = PipelineFunctions
    /\ merged_dir = {}
    /\ results_dir = <<>>
    /\ demo_json = FALSE
    /\ sentiment_csv = FALSE
    /\ price_parquet = FALSE
    /\ prepared = NoSlice
    /\ ui_json = <<>>
    /\ jobs = <<>>
    /\ nreq = 0
    /\ req = NoRequest
    /\ resp = NoResponse

SpecPoints == PointsInit /\ [][RecNext]_vars

-----------------------------------------------------------------------------
(* Properties of the records of a response *)

\* both bounds of the window are missing or parse
ValidWindow == rq.start # BadTime /\ rq.end # BadTime

\* C12: a chart-data request whose startDateTime or endDateTime does not
\* parse is rejected: no records are returned for it.
C12_UnparsableWindowRejected ==
    (rpc = "responded" /\ ~ValidWindow) => records = <<>>

\* the time of r lies in the window of the request; a missing bound does not
\* constrain
Within(r) ==
    IF rq.start = NoTime /\ rq.end = NoTime THEN TRUE
    ELSE /\ r.time # NoTime
         /\ rq.start = NoTime \/ rq.start <= r.time
         /\ rq.end = NoTime \/ r.time <= rq.end

\* C17: for a valid window the returned records are, in order, the obtained
\* records whose time t satisfies start <= t <= end.
C17_WindowFilterInclusive ==
    (rpc = "responded" /\ ValidWindow) =>
        /\ filtered = SelectSeq(obtained, Within)
        /\ Len(records) = Len(filtered)
        /\ \A k \in 1 .. Len(records) : records[k].time = filtered[k].time

\* C18: the number of records of a response never exceeds the point budget.
C18_RecordsWithinBudget ==
    rpc = "responded" => Len(records) <= points

\* the first returned record at or after the start of the window, 0 if none
FirstAtOrAfterStart ==
    LET at == {k \in 1 .. Len(records) :
                  records[k].time # NoTime /\ records[k].time >= rq.start}
    IN  IF at = {} THEN 0 ELSE CHOOSE k \in at : \A j \in at : k <= j

C20_RebasedOnBaseline ==
    (rpc = "responded" /\ rq.start \notin {NoTime, BadTime}
        /\ FirstAtOrAfterStart # 0) =>
        LET b == FirstAtOrAfterStart
            cap == FromInt(rq.initial_capital)
        IN  /\ filtered[b].holdValue # Zero =>
                  \A j \in b .. Len(records) :
                      records[j].holdValue =
                          RMul(RDiv(filtered[j].holdValue,
                                    filtered[b].holdValue), cap)
            /\ filtered[b].strategyValue # Zero =>
                  \A j \in b .. Len(records) :
                      records[j].strategyValue =
                          RMul(RDiv(filtered[j].strategyValue,
                                    filtered[b].strategyValue), cap)

\* the baseline had a holdValue that is not 0 and a strategyValue of 0, and a
\* later record with another holdValue was rescaled
C20_Witness ==
    /\ rpc = "responded"
    /\ rq.start \notin {NoTime, BadTime}
    /\ FirstAtOrAfterStart # 0
    /\ LET b == FirstAtOrAfterStart
       IN  /\ filtered[b].holdValue = One
           /\ filtered[b].strategyValue = Zero
           /\ records[b].holdValue = FromInt(rq.initial_capital)
           /\ \E j \in (b + 1) .. Len(records) :
                 /\ filtered[j].holdValue = FromInt(2)
                 /\ filtered[j].strategyValue = FromInt(2)
                 /\ records[j].holdValue = FromInt(2 * rq.initial_capital)
                 /\ records[j].strategyValue = FromInt(2)

-----------------------------------------------------------------------------
(* Properties of the source label of a response *)

\* C21: a response with records is labelled "explicit", "merged-sync",
\* "merged-queued", "demo" or "auto-pipeline": "explicit" exactly when the
\* request named its backtest parquet, "auto-pipeline" when the records came
\* from the full pipeline.
C21_SourceLabels ==
    (Answered /\ resp.response.status = "records") =>
        /\ resp.response.source \in
              {"explicit", "merged-sync", "merged-queued", "demo",
               "auto-pipeline"}
        /\ resp.response.source = "explicit" <=> req.backtest_parquet # NoFile
        /\ resp.final = "pipeline" => resp.response.source = "auto-pipeline"

-----------------------------------------------------------------------------
(* detect_events of export_backtest_json.py; the index of the frame counts *)
(* hours, row k lying 12 hours after row k-1                               *)

PositionValues == {FromInt(-1), Rat(-1, 2), Zero, Rat(1, 2), One}
TimeFormats == {"iso", "%Y-%m-%d"}

\* df.index[k] of the 0-based row k
IndexTime(k) == 12 * k

\* format_time: the instant in full, or what strftime keeps of it (the day)
format_time(ts, time_format) ==
    IF time_format = "iso" THEN [text |-> "iso", instant |-> ts]
    ELSE [text |-> "day", instant |-> ts \div 24]

EventActionStrict(prev, p) ==
    IF prev = Zero /\ p # Zero THEN (IF RLt(Zero, p) THEN "BUY" ELSE "SELL")
    ELSE IF RLt(Zero, prev) /\ RLt(p, Zero) THEN "SELL"
    ELSE IF RLt(prev, Zero) /\ RLt(Zero, p) THEN "BUY"
    ELSE "None"

\* the if/elif chain of the loop body
EventAction(prev, p) ==
    IF prev = Zero /\ p # Zero THEN (IF RLt(Zero, p) THEN "BUY" ELSE "SELL")
    ELSE IF RLt(Zero, prev) /\ RLe(p, Zero) THEN "SELL"
    ELSE IF RLt(prev, Zero) /\ RLe(Zero, p) THEN "BUY"
    ELSE "None"

Event(k, action, time_format) ==
    [timestamp |-> format_time(IndexTime(k), time_format),
     action |-> action,
     trigger |-> "Sentiment strategy signal"]

DeInit ==
    /\ detect \in [has_position : BOOLEAN,
                   pos : SeqsUpTo(PositionValues, MaxRows),
                   time_format : TimeFormats,
                   events_per_row : {<<>>},
                   prev : {Zero},
                   i : {0},
                   pc : {"start"}]
    \* run_backtest, align_price_and_sentiment and chart_data are idle
    /\ params = [window |-> 1, alpha |-> One, max_drawdown |-> One]
    /\ price = [k \in Bars |-> 1]
    /\ sentiment = Zeros
    /\ ret = Zeros
    /\ target_pos = Zeros
    /\ position_raw = Zeros
    /\ position = Zeros
    /\ equity = Ones
    /\ peak = One
    /\ i = 0
    /\ pc = "idle"
    /\ price_times = <<>>
    /\ sentiment_pts = <<>>
    /\ apply_time_decay = FALSE
    /\ merged = <<>>
    /\ right_pos = 0
    /\ last_sent_ts = <<>>
    /\ apc = "idle"
    /\ fns = PipelineFunctions
    /\ merged_dir = {}
    /\ results_dir = <<>>
    /\ demo_json = FALSE
    /\ sentiment_csv = FALSE
    /\ price_parquet = FALSE
    /\ prepared = NoSlice
    /\ ui_json = <<>>
    /\ jobs = <<>>
    /\ nreq = 0
    /\ req = NoRequest
    /\ resp = NoResponse
    /\ rq = NoChartQuery
    /\ points = NoPoints
    /\ obtained = <<>>
    /\ filtered = <<>>
    /\ records = <<>>
    /\ rpc = "idle"
    /\ xb = <<>>
    /\ runs = <<>>
    /\ runners = <<>>
    /\ objects = <<>>
    /\ cache_file = <<>>
    /\ threads = <<>>

\* the frame has no position column: one empty list per row
DetectNoColumn ==
    /\ detect.pc = "start"
    /\ ~detect.has_position
    /\ detect' = [detect EXCEPT
                    !.events_per_row = [k \in 1 .. Len(detect.pos) |-> <<>>],
                    !.pc = "done"]
    /\ UNCHANGED notDe

\* the lines before the loop
DetectBegin ==
    /\ detect.pc = "start"
    /\ detect.has_position
    /\ detect' = [detect EXCEPT
                    !.events_per_row = [k \in 1 .. Len(detect.pos) |-> <<>>],
                    !.prev = Zero,
                    !.i = 0,
                    !.pc = "loop"]
    /\ UNCHANGED notDe

\* one pass of the loop, for the 0-based row detect.i
DetectStep ==
    /\ detect.pc = "loop"
    /\ detect.i < Len(detect.pos)
    /\ LET p == detect.pos[detect.i + 1]
           action == EventAction(detect.prev, p)
       IN  detect' = [detect EXCEPT
                        !.events_per_row[detect.i + 1] =
                            IF action # "None"
                            THEN Append(@, Event(detect.i, action,
                                                 detect.time_format))
                            ELSE @,
                        !.prev = p,
                        !.i = detect.i + 1]
    /\ UNCHANGED notDe

DetectReturn ==
    /\ detect.pc = "loop"
    /\ detect.i >= Len(detect.pos)
    /\ detect' = [detect EXCEPT !.pc = "done"]
    /\ UNCHANGED notDe

DeNext == DetectNoColumn \/ DetectBegin \/ DetectStep \/ DetectReturn

SpecEvents == DeInit /\ [][DeNext]_vars

-----------------------------------------------------------------------------
(* Properties of detect_events *)

\* the position of the 1-based row k, 0 before the first row
PositionAt(k) == IF k = 0 THEN Zero ELSE detect.pos[k]

\* C24: every processed row carries at most one event, fixed by the sign of
\* the previous row's position (0 before the first row) and of its own:
\* 0 -> positive BUY, 0 -> negative SELL, positive -> zero or negative SELL,
\* negative -> zero or positive BUY, and no event when the sign stays.
C24_EventsFromSignTransitions ==
    (detect.pc \in {"loop", "done"} /\ detect.has_position) =>
        \A k \in 1 .. detect.i :
            LET before == RSign(PositionAt(k - 1))
                now == RSign(PositionAt(k))
                evs == detect.events_per_row[k]
            IN  /\ Len(evs) <= 1
                /\ (before = 0 /\ now = 1) =>
                      Len(evs) = 1 /\ evs[1].action = "BUY"
                /\ (before = 0 /\ now = -1) =>
                      Len(evs) = 1 /\ evs[1].action = "SELL"
                /\ (before = 1 /\ now \in {0, -1}) =>
                      Len(evs) = 1 /\ evs[1].action = "SELL"
                /\ (before = -1 /\ now \in {0, 1}) =>
                      Len(evs) = 1 /\ evs[1].action = "BUY"
                /\ before = now => evs = <<>>

\* a finished call that saw an entry from 0, a row keeping its sign with
\* another size, and a direct flip from positive to negative
C24_Witness ==
    /\ detect.pc = "done"
    /\ detect.has_position
    /\ Len(detect.pos) >= 3
    /\ RSign(detect.pos[1]) = 1
    /\ RSign(detect.pos[2]) = 1 /\ detect.pos[2] # detect.pos[1]
    /\ RSign(detect.pos[3]) = -1
    /\ detect.events_per_row[1] # <<>>
    /\ detect.events_per_row[2] = <<>>
    /\ detect.events_per_row[3] # <<>>

-----------------------------------------------------------------------------
(* execute_backtest of regression.py; bar k of the price frame has the     *)
(* timestamp k                                                             *)

\* entry_price and entry_time of a flat book (None)
NoEntryPrice == [n |-> 0, d |-> 0]
NoEntryTime == 0

SignalValues == {-1, 0, 1}
FeeRates == {Zero, Rat(1, 2)}

\* the return of a position between its entry and the current price
TradeReturn(position_, entry_price, price_) ==
    IF position_ = 1 THEN RSub(RDiv(price_, entry_price), One)
    ELSE RSub(RDiv(entry_price, price_), One)

ClosesOnFlip(frame, current_signal) ==
    /\ current_signal # frame.prev_signal
    /\ current_signal # 0
    /\ frame.position # 0
    /\ frame.entry_price # NoEntryPrice
    /\ frame.entry_time # NoEntryTime

\* the conditions under which the open position is closed at this bar
Closes(frame, current_signal) ==
    /\ current_signal # frame.prev_signal
    /\ frame.position # 0
    /\ frame.entry_price # NoEntryPrice
    /\ frame.entry_time # NoEntryTime

TradeRecord(entry_time, exit_time, direction, entry_price, exit_price, pnl, return_pct) ==
    [entry_time |-> entry_time, exit_time |-> exit_time,
     direction |-> direction, entry_price |-> entry_price,
     exit_price |-> exit_price, pnl |-> pnl, return_pct |-> return_pct]

\* the frame after the closing branch
AfterClose(frame, tm, price_) ==
    LET notional == frame.cash
        r == TradeReturn(frame.position, frame.entry_price, price_)
        pnl == RMul(notional, r)
        fee == RMul(RAbs(notional), frame.fee_rate)
    IN  [frame EXCEPT
            !.cash = RSub(RAdd(frame.cash, pnl), fee),
            !.trades = Append(@, TradeRecord(frame.entry_time, tm,
                                  frame.position, frame.entry_price, price_,
                                  RSub(pnl, fee), r)),
            !.position = 0,
            !.entry_price = NoEntryPrice,
            !.entry_time = NoEntryTime]

\* the frame after the opening branch
AfterOpen(frame, tm, price_, current_signal) ==
    [frame EXCEPT
        !.position = current_signal,
        !.entry_price = price_,
        !.entry_time = tm,
        !.cash = RSub(frame.cash, RMul(frame.cash, frame.fee_rate))]

\* equity_value of the bar
EquityValue(frame, price_) ==
    IF frame.position = 0 \/ frame.entry_price = NoEntryPrice THEN frame.cash
    ELSE RAdd(frame.cash,
              RMul(frame.cash,
                   TradeReturn(frame.position, frame.entry_price, price_)))

XbInit ==
    /\ xb \in [signal : UNION {[1 .. m -> SignalValues] : m \in {MaxRows}},
               prices : UNION {[1 .. m -> {One, FromInt(2)}] : m \in {MaxRows}},
               fee_rate : FeeRates,
               cash : {One},
               position : {0},
               entry_price : {NoEntryPrice},
               entry_time : {NoEntryTime},
               prev_signal : {0},
               trades : {<<>>},
               equity : {<<>>},
               t : {0},
               pc : {"loop"}]
    \* run_backtest, align_price_and_sentiment and chart_data are idle
    /\ params = [window |-> 1, alpha |-> One, max_drawdown |-> One]
    /\ price = [k \in Bars |-> 1]
    /\ sentiment = Zeros
    /\ ret = Zeros
    /\ target_pos = Zeros
    /\ position_raw = Zeros
    /\ position = Zeros
    /\ equity = Ones
    /\ peak = One
    /\ i = 0
    /\ pc = "idle"
    /\ price_times = <<>>
    /\ sentiment_pts = <<>>
    /\ apply_time_decay = FALSE
    /\ merged = <<>>
    /\ right_pos = 0
    /\ last_sent_ts = <<>>
    /\ apc = "idle"
    /\ fns = PipelineFunctions
    /\ merged_dir = {}
    /\ results_dir = <<>>
    /\ demo_json = FALSE
    /\ sentiment_csv = FALSE
    /\ price_parquet = FALSE
    /\ prepared = NoSlice
    /\ ui_json = <<>>
    /\ jobs = <<>>
    /\ nreq = 0
    /\ req = NoRequest
    /\ resp = NoResponse
    /\ rq = NoChartQuery
    /\ points = NoPoints
    /\ obtained = <<>>
    /\ filtered = <<>>
    /\ records = <<>>
    /\ rpc = "idle"
    /\ detect = NoDetect
    /\ runs = <<>>
    /\ runners = <<>>
    /\ objects = <<>>
    /\ cache_file = <<>>
    /\ threads = <<>>

\* one pass of the loop, for the bar with timestamp xb.t + 1
ExecuteBar ==
    /\ xb.pc = "loop"
    /\ xb.t < Len(xb.prices)
    /\ LET tm == xb.t + 1
           price_ == xb.prices[tm]
           current_signal == xb.signal[tm]
           closed == IF Closes(xb, current_signal)
                     THEN AfterClose(xb, tm, price_) ELSE xb
           opened == IF current_signal # xb.prev_signal /\ current_signal # 0
                     THEN AfterOpen(closed, tm, price_, current_signal)
                     ELSE closed
       IN  xb' = [opened EXCEPT
                    !.equity = Append(@, EquityValue(opened, price_)),
                    !.prev_signal = current_signal,
                    !.t = tm]
    /\ UNCHANGED notXb

\* the loop is over: the equity curve and the trades are returned
ExecuteReturn ==
    /\ xb.pc = "loop"
    /\ xb.t >= Len(xb.prices)
    /\ xb' = [xb EXCEPT !.pc = "done"]
    /\ UNCHANGED notXb

XbNext == ExecuteBar \/ ExecuteReturn

SpecExecute == XbInit /\ [][XbNext]_vars

-----------------------------------------------------------------------------
(* Properties of execute_backtest *)

\* the signal of bar k, 0 before the first bar
SignalAt(k) == IF k = 0 THEN 0 ELSE xb.signal[k]

\* the processed bars at which an open position ended
ClosingBars == {k \in 1 .. xb.t : SignalAt(k) # SignalAt(k - 1)
                                  /\ SignalAt(k - 1) # 0}

\* C27: after each bar the open position is the bar's signal; the trades are
\* exactly the bars where the signal changed while a position was open, with
\* exit at that bar and entry at the bar where the position was opened
\* (entry_time < exit_time), a direction of +1 or -1, consecutive trades not
\* overlapping; a position open at the last bar has no trade.
C27_TradesFollowSignalChanges ==
    xb.pc \in {"loop", "done"} =>
        LET trades_ == xb.trades
        IN  /\ xb.position = SignalAt(xb.t)
            /\ Len(xb.equity) = xb.t
            /\ {trades_[n].exit_time : n \in 1 .. Len(trades_)} = ClosingBars
            /\ Len(trades_) = Cardinality(ClosingBars)
            /\ \A n \in 1 .. Len(trades_) :
                  LET tr == trades_[n]
                  IN  /\ tr.direction \in {1, -1}
                      /\ 1 <= tr.entry_time
                      /\ tr.entry_time < tr.exit_time
                      /\ SignalAt(tr.entry_time - 1) # tr.direction
                      /\ \A k \in tr.entry_time .. (tr.exit_time - 1) :
                            SignalAt(k) = tr.direction
                      /\ n < Len(trades_) =>
                            tr.exit_time <= trades_[n + 1].entry_time
            /\ xb.position # 0 =>
                  /\ xb.entry_time >= 1
                  /\ \A n \in 1 .. Len(trades_) :
                        trades_[n].exit_time <= xb.entry_time
                  /\ \A k \in xb.entry_time .. xb.t :
                        SignalAt(k) = xb.position

\* a finished run with a trade closed by a flip, a trade closed by a return
\* to flat or a second flip, and a position still open at the last bar
C27_Witness ==
    /\ xb.pc = "done"
    /\ Len(xb.trades) >= 2
    /\ xb.trades[1].exit_time = xb.trades[2].entry_time
    /\ xb.position # 0
    /\ xb.fee_rate # Zero

-----------------------------------------------------------------------------
(* Two runs of run_backtest side by side: the second run takes the inputs  *)
(* of the first up to the bar `agree` and other inputs after it            *)

\* another price and another sentiment than the given one
OtherPrice(p) == IF p = 1 THEN 2 ELSE 1
OtherSentiment(s) == IF s = One THEN FromInt(-1) ELSE RAdd(s, One)

\* the frame of a run before run_backtest line 144
RunFrame(params_, price_, sentiment_) ==
    [params |-> params_, price |-> price_, sentiment |-> sentiment_,
     ret |-> Zeros, sent_mean |-> Zeros, target_pos |-> Zeros,
     position_raw |-> Zeros, position |-> Zeros, equity |-> Ones,
     peak |-> One, i |-> 0, pc |-> "build_signals"]

\* run_backtest line 144 and build_signals up to the smoothing loop
BuildSignalsOf(f) ==
    [f EXCEPT !.ret = PctChange(f.price),
              !.sent_mean = SentMean(f.sentiment, f.params.window),
              !.target_pos = TargetPos(f.sentiment, f.params.window),
              !.position_raw = Zeros,
              !.i = 1,
              !.pc = "smooth"]

\* one pass of the smoothing loop of build_signals
SmoothStepOf(f) ==
    [f EXCEPT !.position_raw[f.i] = Smooth(f.params.alpha, f.target_pos[f.i],
                                           f.position_raw[f.i - 1]),
              !.i = f.i + 1]

\* apply_risk_control sets up its arrays
RiskInitOf(f) ==
    [f EXCEPT !.position = Zeros, !.equity = Ones, !.peak = Ones[0],
              !.i = 1, !.pc = "risk"]

\* one pass of the loop of apply_risk_control
RiskStepOf(f) ==
    LET pos1 == [f.position EXCEPT ![f.i] = f.position_raw[f.i]]
        e == EquityStep(f.equity, pos1, f.ret, f.i)
        pk == NewPeak(f.peak, e)
        dd == Drawdown(e, pk)
    IN  [f EXCEPT !.equity[f.i] = e,
                  !.peak = pk,
                  !.position = [pos1 EXCEPT ![f.i] =
                                  Override(dd, pos1[f.i], f.params.max_drawdown)],
                  !.i = f.i + 1]

CauInit ==
    /\ runs \in
         {[agree |-> a,
           frames |-> <<RunFrame(ps, p, s),
                        RunFrame(ps,
                                 [k \in Bars |-> IF k <= a THEN p[k]
                                                 ELSE OtherPrice(p[k])],
                                 [k \in Bars |-> IF k <= a THEN s[k]
                                                 ELSE OtherSentiment(s[k])])>>] :
            a \in 0 .. (NumBars - 2),
            ps \in {q \in StrategyParams :
                       q.alpha = Rat(1, 2) /\ q.max_drawdown = Rat(1, 5)},
            p \in [Bars -> PriceValues],
            s \in [Bars -> SentimentValues]}
    \* run_backtest, align_price_and_sentiment and chart_data are idle
    /\ params = [window |-> 1, alpha |-> One, max_drawdown |-> One]
    /\ price = [k \in Bars |-> 1]
    /\ sentiment = Zeros
    /\ ret = Zeros
    /\ target_pos = Zeros
    /\ position_raw = Zeros
    /\ position = Zeros
    /\ equity = Ones
    /\ peak = One
    /\ i = 0
    /\ pc = "idle"
    /\ price_times = <<>>
    /\ sentiment_pts = <<>>
    /\ apply_time_decay = FALSE
    /\ merged = <<>>
    /\ right_pos = 0
    /\ last_sent_ts = <<>>
    /\ apc = "idle"
    /\ fns = PipelineFunctions
    /\ merged_dir = {}
    /\ results_dir = <<>>
    /\ demo_json = FALSE
    /\ sentiment_csv = FALSE
    /\ price_parquet = FALSE
    /\ prepared = NoSlice
    /\ ui_json = <<>>
    /\ jobs = <<>>
    /\ nreq = 0
    /\ req = NoRequest
    /\ resp = NoResponse
    /\ rq = NoChartQuery
    /\ points = NoPoints
    /\ obtained = <<>>
    /\ filtered = <<>>
    /\ records = <<>>
    /\ rpc = "idle"
    /\ detect = NoDetect
    /\ xb = <<>>
    /\ runners = <<>>
    /\ objects = <<>>
    /\ cache_file = <<>>
    /\ threads = <<>>

\* both runs take the same step; they stand at the same place throughout
BothBuildSignals ==
    /\ runs.frames[1].pc = "build_signals"
    /\ runs' = [runs EXCEPT !.frames = [r \in 1 .. 2 |-> BuildSignalsOf(@[r])]]
    /\ UNCHANGED notCau

BothSmoothStep ==
    /\ runs.frames[1].pc = "smooth"
    /\ runs.frames[1].i < NumBars
    /\ runs' = [runs EXCEPT !.frames = [r \in 1 .. 2 |-> SmoothStepOf(@[r])]]
    /\ UNCHANGED notCau

BothRiskInit ==
    /\ runs.frames[1].pc = "smooth"
    /\ runs.frames[1].i >= NumBars
    /\ runs' = [runs EXCEPT !.frames = [r \in 1 .. 2 |-> RiskInitOf(@[r])]]
    /\ UNCHANGED notCau

BothRiskStep ==
    /\ runs.frames[1].pc = "risk"
    /\ runs.frames[1].i < NumBars
    /\ runs' = [runs EXCEPT !.frames = [r \in 1 .. 2 |-> RiskStepOf(@[r])]]
    /\ UNCHANGED notCau

BothRiskDone ==
    /\ runs.frames[1].pc = "risk"
    /\ runs.frames[1].i >= NumBars
    /\ runs' = [runs EXCEPT
                  !.frames = [r \in 1 .. 2 |-> [@[r] EXCEPT !.pc = "done"]]]
    /\ UNCHANGED notCau

CauNext == BothBuildSignals \/ BothSmoothStep \/ BothRiskInit \/ BothRiskStep
           \/ BothRiskDone

SpecCausal == CauInit /\ [][CauNext]_vars

-----------------------------------------------------------------------------
(* Properties of two runs side by side *)

\* C26: two runs whose prices (hence returns) and sentiments agree on the
\* bars 0..agree have the same sent_mean, target position, smoothed position,
\* final position and equity on these bars, whatever follows them.
C26_Causal ==
    runs # <<>> =>
        LET a == runs.frames[1]
            b == runs.frames[2]
        IN  /\ a.pc = b.pc /\ a.i = b.i
            /\ \A k \in 0 .. runs.agree :
                  /\ a.ret[k] = b.ret[k]
                  /\ a.sent_mean[k] = b.sent_mean[k]
                  /\ a.target_pos[k] = b.target_pos[k]
                  /\ a.position_raw[k] = b.position_raw[k]
                  /\ a.position[k] = b.position[k]
                  /\ a.equity[k] = b.equity[k]

\* two finished runs that agree on at least two bars, differ in the target
\* position, the final position and the equity of a later bar, and in which
\* a bar of the common prefix moved the equity
C26_Witness ==
    /\ runs # <<>>
    /\ runs.frames[1].pc = "done"
    /\ runs.agree >= 1
    /\ runs.frames[1].params.window = 2
    /\ \E k \in 1 .. runs.agree :
          runs.frames[1].equity[k] # One
    /\ \E k \in (runs.agree + 1) .. (NumBars - 1) :
          /\ runs.frames[1].target_pos[k] # runs.frames[2].target_pos[k]
          /\ runs.frames[1].position[k] # runs.frames[2].position[k]
          /\ runs.frames[1].equity[k] # runs.frames[2].equity[k]

-----------------------------------------------------------------------------
(* get_runner of api_server.py and CryptoSentimentRunner of                *)
(* lib/sentiment_engine.py, under requests to /pipeline/run_sentiment      *)
(* served by the worker threads of the server, each for a CSV of one row   *)

\* the strategies of config/scoring_strategies.json, and a name it lacks
ConfiguredStrategies == {"standard_crypto", "degen_meme"}
StrategyNames == ConfiguredStrategies \cup {"no_such_strategy"}

Headlines == {"up", " up "}

\* str(headline).strip()
Strip(headline) == IF headline = " up " THEN "up" ELSE headline

\* what the chain returns when it returns
SentimentResults == {[score |-> One, reason |-> "bullish"],
                     [score |-> Rat(1, 2), reason |-> "mildly bullish"]}
ErrorResult == [score |-> Zero, reason |-> "Error"]
NoResult == [score |-> Zero, reason |-> "None"]

\* _get_hash: the digest of "text|strategy", one per pair
GetHash(text, current_strategy_name) == <<text, current_strategy_name>>

\* the frame of a request: new and runner are indexes into objects, 0 for none
ThreadFrame(strategy, headline) ==
    [strategy |-> strategy, headline |-> headline, pc |-> "get_runner",
     new |-> 0, runner |-> 0, output |-> NoResult, result |-> NoResult,
     cache_copy |-> <<>>]

\* the hash of the row of thread t
ItemHash(t) ==
    GetHash(Strip(threads[t].headline),
            objects[threads[t].runner].current_strategy_name)

RnInit ==
    /\ runners = <<>>
    /\ objects = <<>>
    /\ cache_file = <<>>
    /\ threads \in [1 .. NumThreads ->
                      {ThreadFrame(s, h) : s \in StrategyNames, h \in Headlines}]
    \* run_backtest, align_price_and_sentiment and chart_data are idle
    /\ params = [window |-> 1, alpha |-> One, max_drawdown |-> One]
    /\ price = [k \in Bars |-> 1]
    /\ sentiment = Zeros
    /\ ret = Zeros
    /\ target_pos = Zeros
    /\ position_raw = Zeros
    /\ position = Zeros
    /\ equity = Ones
    /\ peak = One
    /\ i = 0
    /\ pc = "idle"
    /\ price_times = <<>>
    /\ sentiment_pts = <<>>
    /\ apply_time_decay = FALSE
    /\ merged = <<>>
    /\ right_pos = 0
    /\ last_sent_ts = <<>>
    /\ apc = "idle"
    /\ fns = PipelineFunctions
    /\ merged_dir = {}
    /\ results_dir = <<>>
    /\ demo_json = FALSE
    /\ sentiment_csv = FALSE
    /\ price_parquet = FALSE
    /\ prepared = NoSlice
    /\ ui_json = <<>>
    /\ jobs = <<>>
    /\ nreq = 0
    /\ req = NoRequest
    /\ resp = NoResponse
    /\ rq = NoChartQuery
    /\ points = NoPoints
    /\ obtained = <<>>
    /\ filtered = <<>>
    /\ records = <<>>
    /\ rpc = "idle"
    /\ detect = NoDetect
    /\ xb = <<>>
    /\ runs = <<>>

\* get_runner: `if strategy_name not in runners`
GetRunnerCheck(t) ==
    /\ threads[t].pc = "get_runner"
    /\ threads' = [threads EXCEPT
                     ![t].pc = IF threads[t].strategy \in DOMAIN runners
                               THEN "lookup" ELSE "construct"]
    /\ UNCHANGED <<runners, objects, cache_file, notRn>>

\* CryptoSentimentRunner(strategy_name=...): _load_strategy_rules raises for
\* a strategy the configuration lacks; api_run_sentiment answers 500
ConstructRaises(t) ==
    /\ threads[t].pc = "construct"
    /\ threads[t].strategy \notin ConfiguredStrategies
    /\ threads' = [threads EXCEPT ![t].pc = "error"]
    /\ UNCHANGED <<runners, objects, cache_file, notRn>>

\* CryptoSentimentRunner(strategy_name=...): the new object loads the cache
\* file; calls counts the invocations of its chain, by hash
Construct(t) ==
    /\ threads[t].pc = "construct"
    /\ threads[t].strategy \in ConfiguredStrategies
    /\ objects' = Append(objects,
                         [current_strategy_name |-> threads[t].strategy,
                          cache |-> cache_file,
                          calls |-> <<>>])
    /\ threads' = [threads EXCEPT ![t].new = Len(objects) + 1,
                                  ![t].pc = "store"]
    /\ UNCHANGED <<runners, cache_file, notRn>>

\* runners[strategy_name] = the new object
Store(t) ==
    /\ threads[t].pc = "store"
    /\ runners' = (threads[t].strategy :> threads[t].new) @@ runners
    /\ threads' = [threads EXCEPT ![t].pc = "lookup"]
    /\ UNCHANGED <<objects, cache_file, notRn>>

\* return runners[strategy_name]
Lookup(t) ==
    /\ threads[t].pc = "lookup"
    /\ threads' = [threads EXCEPT ![t].runner = runners[threads[t].strategy],
                                  ![t].pc = "analyze"]
    /\ UNCHANGED <<runners, objects, cache_file, notRn>>

\* analyze_row: the cache has the hash
CacheHit(t) ==
    /\ threads[t].pc = "analyze"
    /\ ItemHash(t) \in DOMAIN objects[threads[t].runner].cache
    /\ threads' = [threads EXCEPT
                     ![t].result = objects[threads[t].runner].cache[ItemHash(t)],
                     ![t].pc = "save"]
    /\ UNCHANGED <<runners, objects, cache_file, notRn>>

\* analyze_row: the cache lacks the hash
CacheMiss(t) ==
    /\ threads[t].pc = "analyze"
    /\ ItemHash(t) \notin DOMAIN objects[threads[t].runner].cache
    /\ threads' = [threads EXCEPT ![t].pc = "invoke"]
    /\ UNCHANGED <<runners, objects, cache_file, notRn>>

\* the calls of the chain of object o for hash h, one more
Called(o, h) ==
    [objects EXCEPT ![o].calls =
        (h :> (IF h \in DOMAIN @ THEN @[h] + 1 ELSE 1)) @@ @]

\* self.chain.invoke returns a result
InvokeReturns(t) ==
    /\ threads[t].pc = "invoke"
    /\ \E res \in SentimentResults :
          threads' = [threads EXCEPT ![t].output = res, ![t].pc = "write"]
    /\ objects' = Called(threads[t].runner, ItemHash(t))
    /\ UNCHANGED <<runners, cache_file, notRn>>

\* self.chain.invoke raises: the except branch returns the error result
InvokeRaises(t) ==
    /\ threads[t].pc = "invoke"
    /\ threads' = [threads EXCEPT ![t].result = ErrorResult, ![t].pc = "save"]
    /\ objects' = Called(threads[t].runner, ItemHash(t))
    /\ UNCHANGED <<runners, cache_file, notRn>>

\* self.cache[item_hash] = output, under the lock
WriteCache(t) ==
    /\ threads[t].pc = "write"
    /\ objects' = [objects EXCEPT ![threads[t].runner].cache =
                      (ItemHash(t) :> threads[t].output) @@ @]
    /\ threads' = [threads EXCEPT ![t].result = threads[t].output,
                                  ![t].pc = "save"]
    /\ UNCHANGED <<runners, cache_file, notRn>>

\* _save_cache: the copy taken under the lock
SaveCopy(t) ==
    /\ threads[t].pc = "save"
    /\ threads' = [threads EXCEPT
                     ![t].cache_copy = objects[threads[t].runner].cache,
                     ![t].pc = "dump"]
    /\ UNCHANGED <<runners, objects, cache_file, notRn>>

\* _save_cache: the file is rewritten with the copy
SaveDump(t) ==
    /\ threads[t].pc = "dump"
    /\ cache_file' = threads[t].cache_copy
    /\ threads' = [threads EXCEPT ![t].pc = "done"]
    /\ UNCHANGED <<runners, objects, notRn>>

RnNext ==
    \E t \in DOMAIN threads :
        \/ GetRunnerCheck(t)
        \/ ConstructRaises(t)
        \/ Construct(t)
        \/ Store(t)
        \/ Lookup(t)
        \/ CacheHit(t)
        \/ CacheMiss(t)
        \/ InvokeReturns(t)
        \/ InvokeRaises(t)
        \/ WriteCache(t)
        \/ SaveCopy(t)
        \/ SaveDump(t)

SpecRunners == RnInit /\ [][RnNext]_vars

-----------------------------------------------------------------------------
(* Properties of get_runner and of the cache of a runner *)

\* the threads that hold a result of the chain or of the cache for the hash h
\* of the object o
Scored(o, h) ==
    {t \in DOMAIN threads :
        /\ threads[t].runner = o
        /\ threads[t].result \notin {NoResult, ErrorResult}
        /\ ItemHash(t) = h}

\* C25: on one runner the chain is invoked at most once per hash, whatever
\* the interleaving of the calls and also after a failed attempt, and all
\* calls for a hash that return a score return the same (score, reason).
C25_ScoredAtMostOncePerHash ==
    \A o \in 1 .. Len(objects) :
        /\ \A h \in DOMAIN objects[o].calls : objects[o].calls[h] <= 1
        /\ \A h \in DOMAIN objects[o].cache :
              \A t1, t2 \in Scored(o, h) :
                  threads[t1].result = threads[t2].result

\* every strategy has at most one runner object
OneRunnerPerStrategy ==
    \A a, b \in 1 .. Len(objects) :
        objects[a].current_strategy_name = objects[b].current_strategy_name
            => a = b

\* thread t completes a save in this step
Saves(t) == threads[t].pc = "dump" /\ threads'[t].pc = "done"

\* C29: with one runner per strategy, all on the same cache file, an entry
\* that the save of one runner wrote to the file is still in the file after a
\* save by the runner of another strategy.
C29_SavesKeepEntries ==
    [][OneRunnerPerStrategy' =>
          \A t \in DOMAIN threads : \A h \in DOMAIN cache_file :
              (/\ Saves(t)
               /\ objects[threads[t].runner].current_strategy_name # h[2])
                  => h \in DOMAIN cache_file']_vars

\* C30: at most one runner is ever constructed per strategy name, all calls
\* of get_runner for a name return the same object, and a construction that
\* raised left no entry for the name.
C30_LookupOrCreate ==
    /\ OneRunnerPerStrategy
    /\ \A t1, t2 \in DOMAIN threads :
          (/\ threads[t1].runner # 0
           /\ threads[t2].runner # 0
           /\ threads[t1].strategy = threads[t2].strategy)
              => threads[t1].runner = threads[t2].runner
    /\ \A t \in DOMAIN threads :
          threads[t].pc = "error" => threads[t].strategy \notin DOMAIN runners

=============================================================================
